---- MODULE Spec2Model ----
(***************************************************************************)
(* DanmakuEngine (src/services/bilibili-api.ts, lines 155-812) as a state  *)
(* machine: the engine's fields, the video element it listens to, the      *)
(* refresh-loop frame and the timers it schedules.                         *)
(*                                                                         *)
(* All times are integers in milliseconds (the source uses seconds for     *)
(* video time and milliseconds for animation time).  One Advance step is   *)
(* one emission interval (500 ms) of wall-clock time.                      *)
(***************************************************************************)
EXTENDS Integers, Sequences, FiniteSets, TLC

\* ---------------------------------------------------------------- bounds
\* Number of Advance steps (of EmitInterval ms each) one behaviour may contain.
MaxTicks == 2
\* Length of the video in ms.
VideoEnd == 10000
\* Number of user/API inputs (seek, ratechange, loadDanmakus, updateSettings,
\* resize) one behaviour may contain.
MaxInputs == 2

\* ------------------------------------------------------ program constants
seekingThreshold == 500
EmitInterval == 500
EmitWindowPast == 500
EmitWindowAhead == 1000
ResyncWindowPast == 8000
ResyncWindowAhead == 1000
baseDuration == 8000
MaxEmitPerPass == 10
DefaultWeight == 5
CollisionBuffer == 100

\* Measurements the DOM reports to the engine.
StageWidth == 700
ItemWidth == 100

Rates == {1, 2}
\* How far a seek moves the video's position (ms).
SeekDeltas == {-1000, -500, 500, 9000}
Heights == {0, 32, 64}

\* Comment lists the comment source may supply (times in ms; a comment may
\* carry no weight).  ListA is not sorted.
ListA == << [time |-> 1000, weight |-> 3], [time |-> 500], [time |-> 1000, weight |-> 8] >>
ListB == << [time |-> 1500, weight |-> 5], [time |-> 0, weight |-> 9] >>
\* Eleven comments that are due together: more than one pass may emit.
ListBig ==
    [i \in 1..11 |-> [time |-> IF i <= 4 THEN 500 ELSE IF i <= 8 THEN 1000 ELSE 1500]]

\* Partial settings objects passed to updateSettings.
SettingsUpdates ==
    { [weightThreshold |-> 5], [speed |-> 2], [timeOffset |-> 500],
      [enabled |-> FALSE], [enabled |-> TRUE] }

\* ---------------------------------------------------------------- helpers
Max(a, b) == IF a >= b THEN a ELSE b
Min(a, b) == IF a <= b THEN a ELSE b
Abs(a) == IF a >= 0 THEN a ELSE 0 - a

RECURSIVE InsertByTime(_, _)
InsertByTime(s, d) ==
    IF s = <<>> THEN <<d>>
    ELSE IF d.time < Head(s).time THEN <<d>> \o s
    ELSE <<Head(s)>> \o InsertByTime(Tail(s), d)

\* SortByTime that leaves the list in the order it came in
KeepOrder(s) == s

\* Array.prototype.sort((a, b) => a.time - b.time): stable.
RECURSIVE SortByTime(_)
SortByTime(s) ==
    IF s = <<>> THEN <<>>
    ELSE InsertByTime(SortByTime(SubSeq(s, 1, Len(s) - 1)), s[Len(s)])

\* { ...d, emitted: false }
WithEmitted(d) ==
    [k \in DOMAIN d \cup {"emitted"} |-> IF k = "emitted" THEN FALSE ELSE d[k]]

\* { ...this.settings, ...settings }
MergeSettings(s, p) == [k \in DOMAIN s |-> IF k \in DOMAIN p THEN p[k] ELSE s[k]]

RECURSIVE SeqFilter(_, _)
\* the members of the sequence of indices ids that are in the set keep, in order
SeqFilter(ids, keep) ==
    IF ids = <<>> THEN <<>>
    ELSE IF Head(ids) \in keep THEN <<Head(ids)>> \o SeqFilter(Tail(ids), keep)
    ELSE SeqFilter(Tail(ids), keep)

Indices(s) == [i \in 1..Len(s) |-> i]
Range(s) == {s[i] : i \in 1..Len(s)}

\* ------------------------------------------------------------------ state
VARIABLES
    \* the video element (owned by the page)
    vTime, vPaused, vRate, vSeeking,
    \* the container's height in px, and what the comment source supplies
    containerHeight, env,
    \* the elements attached to the stage, each named by its comment's index
    stage,
    \* DanmakuEngine fields
    danmakus, tracks, settings, isStarted, lastVideoTime, isRealSeeking,
    pauseTime, emittingFrameId, emitDue, cleanupDue,
    \* callbacks the engine has scheduled and that have not run yet
    loopFrames, loadTimers, rebuildFrames, fullscreenTimers,
    \* destroy() has run: the stage is detached and the ResizeObserver disconnected
    destroyed,
    \* bookkeeping of the model: inputs consumed, and what the last step did
    inputs, ticks, last,
    \* history: a seeking event has cleared the overlay and no seeked event has
    \* followed it yet
    flushed,
    \* history: an emission pass has run in the current interval of EmitInterval ms
    passedThisInterval,
    \* the title utilities: the argument of a call, the function called ("none"
    \* before the call), what it returned, and the module's OpenCC converter
    title, titleCall, titleOut, openccConverter,
    \* the content script: the video the page shows (what getVideoId() returns), the
    \* closure variables lastUrl, currentVideoId and danmakuEngine, the comment list
    \* the current engine holds, the videos browser.storage.local holds comments
    \* for, the pending setTimeout callbacks, the activations of async functions
    \* that wait for a promise, and the navigations that have happened
    pageVideo, lastUrl, currentVideoId, danmakuEngine, engineList, storage,
    initTimers, autoTimers, tasks, navigations,
    \* extension messaging: the requests sent with browser.runtime.sendMessage that
    \* the background has not handled yet, and the responses it has sent
    inbox, responses,
    \* the ad monitor: whether the page shows an ad (what detectAd() returns),
    \* AdMonitor.lastAdStatus, the closure variable savedOpacity, the opacity of the
    \* engine's settings and of the stored danmakuSettings (<< >> when there is
    \* none, else << opacity >>), the storage reads of
    \* onAdStart that have not resolved, the popup's updateSettings messages in
    \* flight, and how many ads and saves there have been
    adShowing, lastAdStatus, savedOpacity, engineOpacity, storedOpacity, reads,
    popupUpdates, ads, saves,
    \* removeAdSegments: its arguments danmakus and youtubeVideoDuration, what the
    \* request for the sponsor segments brings, and what the call resolved to
    \* ("pending" before)
    segDanmakus, youtubeVideoDuration, skipResponse, segResult,
    \* the object stored under channelMappings, and the calls of
    \* saveChannelAssociation and removeChannelAssociation made so far
    channelMappings, assocCalls,
    \* a CacheManager: its Map (the entries, each with its key and its time of
    \* expiry), its accessOrder, and Date.now()
    cache, accessOrder, cacheNow,
    \* history: the number of calls of the cache's methods so far, the call at
    \* which each key was last used, and the last call
    cacheOps, usedAt, cacheLast,
    \* the YouTube page as getChannelInfo reads it, and the call of getChannelInfo:
    \* where it is, its retryCount, the attempts made, the delays of its timers,
    \* whether the last attempt threw, and what it resolved to
    nameElements, anchors, avatarSrc, channelCall

vars == << vTime, vPaused, vRate, vSeeking, containerHeight, env, danmakus, tracks,
           settings, isStarted, lastVideoTime, isRealSeeking, pauseTime,
           emittingFrameId, emitDue, cleanupDue, loopFrames, loadTimers,
           rebuildFrames, fullscreenTimers, destroyed, inputs, ticks, last, flushed,
           stage, passedThisInterval, title, titleCall, titleOut, openccConverter,
           pageVideo, lastUrl, currentVideoId, danmakuEngine, engineList, storage,
           initTimers, autoTimers, tasks, navigations, inbox, responses,
           adShowing, lastAdStatus, savedOpacity, engineOpacity, storedOpacity, reads,
           popupUpdates, ads, saves, segDanmakus, youtubeVideoDuration, skipResponse,
           segResult, channelMappings, assocCalls, cache, accessOrder, cacheNow, cacheOps,
           usedAt, cacheLast, nameElements, anchors, avatarSrc, channelCall >>

\* the state of the title utilities
pureVars == << title, titleCall, titleOut, openccConverter >>

\* the state of the content script
scriptVars ==
    << pageVideo, lastUrl, currentVideoId, danmakuEngine, engineList, storage,
       initTimers, autoTimers, tasks, navigations >>

\* the state of the extension's messaging
messageVars == << inbox, responses >>

\* the state of the ad monitor and of the settings it restores
adVars ==
    << adShowing, lastAdStatus, savedOpacity, engineOpacity, storedOpacity, reads,
       popupUpdates, ads, saves >>

\* the state of a call of removeAdSegments
segmentVars == << segDanmakus, youtubeVideoDuration, skipResponse, segResult >>

\* the stored channel associations and the calls that change them
assocVars == << channelMappings, assocCalls >>

\* the state of a CacheManager
cacheVars == << cache, accessOrder, cacheNow, cacheOps, usedAt, cacheLast >>

\* the page's channel elements and the call of getChannelInfo
channelVars == << nameElements, anchors, avatarSrc, channelCall >>

\* the state outside the engine and the video
outerVars ==
    << pureVars, scriptVars, messageVars, adVars, segmentVars, assocVars, cacheVars,
    channelVars >>

engineVars ==
    << vTime, vPaused, vRate, vSeeking, containerHeight, env, danmakus, tracks, settings,
       isStarted, lastVideoTime, isRealSeeking, pauseTime, emittingFrameId, emitDue,
       cleanupDue, loopFrames, loadTimers, rebuildFrames, fullscreenTimers, destroyed,
       inputs, ticks, last, flushed, stage, passedThisInterval >>

videoVars == << vTime, vPaused, vRate, vSeeking >>

\* the state outside each of the other components
notTitle ==
    << engineVars, scriptVars, messageVars, adVars, segmentVars, assocVars, cacheVars,
    channelVars >>
notScript ==
    << engineVars, pureVars, messageVars, adVars, segmentVars, assocVars, cacheVars,
    channelVars >>
notMessages ==
    << engineVars, pureVars, scriptVars, adVars, segmentVars, assocVars, cacheVars,
    channelVars >>
notAd ==
    << engineVars, pureVars, scriptVars, messageVars, segmentVars, assocVars, cacheVars,
    channelVars >>
notSegments ==
    << engineVars, pureVars, scriptVars, messageVars, adVars, assocVars, cacheVars,
    channelVars >>
notAssociations ==
    << engineVars, pureVars, scriptVars, messageVars, adVars, segmentVars, cacheVars,
    channelVars >>
notCache ==
    << engineVars, pureVars, scriptVars, messageVars, adVars, segmentVars, assocVars,
    channelVars >>
notChannel ==
    << engineVars, pureVars, scriptVars, messageVars, adVars, segmentVars, assocVars,
    cacheVars >>

\* ------------------------------------------------------------ the comments
WeightOf(d) == IF "weight" \in DOMAIN d THEN d.weight ELSE DefaultWeight

\* PassesWeight with the filter left out
PassesAnyWeight(d, s) == TRUE

\* lines 482-487 and 589-594: the weight filter
PassesWeight(d, s) == s.weightThreshold > 0 => WeightOf(d) >= s.weightThreshold

\* line 477, 554, 581, 724: video.currentTime + settings.timeOffset
AdjustedTime == vTime + settings.timeOffset

\* IsDue without the test of the emitted flag
IsDueAgain(d, now) ==
    /\ PassesWeight(d, settings)
    /\ d.time - now >= 0 - EmitWindowPast
    /\ d.time - now <= EmitWindowAhead

\* IsDue without the lower end of the window: a backlog is due
IsDueBacklog(d, now) ==
    /\ ~d.emitted
    /\ PassesWeight(d, settings)
    /\ d.time - now <= EmitWindowAhead

\* lines 479-491: the filter of checkAndEmitDanmakus
IsDue(d, now) ==
    /\ ~d.emitted
    /\ PassesWeight(d, settings)
    /\ d.time - now >= 0 - EmitWindowPast
    /\ d.time - now <= EmitWindowAhead

\* lines 586-597: the filter of resyncDanmakus
IsActive(d, now) ==
    /\ PassesWeight(d, settings)
    /\ now - d.time >= 0 - ResyncWindowAhead
    /\ now - d.time <= ResyncWindowPast

\* IsRespawned with the comment at exactly the current time left out
IsRespawnedStrict(d, now) == now - d.time > 0 /\ now - d.time <= ResyncWindowPast

\* line 605: the second test of resyncDanmakus
IsRespawned(d, now) == now - d.time >= 0 /\ now - d.time <= ResyncWindowPast

\* lines 539-546
resetDanmakuStates(ds) == [i \in 1..Len(ds) |-> [ds[i] EXCEPT !.emitted = FALSE]]

MarkEmitted(ds, ids) ==
    [i \in 1..Len(ds) |-> IF i \in ids THEN [ds[i] EXCEPT !.emitted = TRUE] ELSE ds[i]]

\* ---------------------------------------------------------- the animations
\* An item is [danmaku, cur, dur, playState, startVideoTime, top]: danmaku is the
\* index of its comment in this.danmakus, cur and dur the animation's currentTime
\* and duration, playState the animation's play state.

\* Animation.currentTime = t (a paused animation stays paused; at or past the end
\* of a fill-forwards effect the animation is finished)
SetCurrentTime(it, t) ==
    [it EXCEPT !.cur = t,
               !.playState = IF it.playState = "paused" THEN "paused"
                             ELSE IF t >= it.dur THEN "finished" ELSE "running"]

\* PlayItem that starts the animation again from its beginning
PlayItemRestart(it) ==
    IF it.playState # "paused" THEN it ELSE [it EXCEPT !.cur = 0, !.playState = "running"]

\* lines 436-438: play() on a paused animation (play() rewinds one that is at its end)
PlayItem(it) ==
    IF it.playState # "paused" THEN it
    ELSE IF it.cur >= it.dur THEN [it EXCEPT !.cur = 0, !.playState = "running"]
    ELSE [it EXCEPT !.playState = "running"]

\* lines 514-516: pause() on a running animation
PauseItem(it) == IF it.playState = "running" THEN [it EXCEPT !.playState = "paused"] ELSE it

\* EmitInterval ms of wall-clock time pass for an animation
AdvanceItem(it) ==
    IF it.playState = "running" THEN SetCurrentTime(it, Min(it.cur + EmitInterval, it.dur))
    ELSE it

MapItems(trs, F(_)) ==
    [t \in 1..Len(trs) |->
        [trs[t] EXCEPT !.items = [k \in 1..Len(trs[t].items) |-> F(trs[t].items[k])]]]

\* every item of every track, in track order
RECURSIVE AllItems(_)
AllItems(trs) == IF trs = <<>> THEN <<>> ELSE Head(trs).items \o AllItems(Tail(trs))

ItemSet == Range(AllItems(tracks))

\* lines 521-537
clear(trs) == [t \in 1..Len(trs) |-> [trs[t] EXCEPT !.items = <<>>]]

\* lines 548-567
SpeedChangeItem(it, newRate) ==
    LET visualElapsed == (AdjustedTime - danmakus[it.danmaku].time) \div newRate
        progressMs == Max(0, visualElapsed)
    IN  IF progressMs <= it.dur THEN SetCurrentTime(it, progressMs) ELSE it

handleSpeedChange(trs, newRate) == MapItems(trs, LAMBDA it : SpeedChangeItem(it, newRate))

\* UpdateSpeedItem that keeps the animation's current time instead of its fraction
UpdateSpeedItemKeepTime(it, speed) ==
    SetCurrentTime([it EXCEPT !.dur = baseDuration \div speed], it.cur)

\* lines 398-412
UpdateSpeedItem(it, speed) ==
    LET newDuration == baseDuration \div speed
    IN  SetCurrentTime([it EXCEPT !.dur = newDuration], (it.cur * newDuration) \div it.dur)

updateAnimationSpeeds(trs, speed) == MapItems(trs, LAMBDA it : UpdateSpeedItem(it, speed))

\* ------------------------------------------------------------- the tracks
\* lines 730-748: does the item keep a new comment off its track?
ItemBlocks(it) ==
    LET elapsed == AdjustedTime - danmakus[it.danmaku].time
        total == StageWidth + ItemWidth
    IN  IF elapsed >= it.dur * vRate
        THEN 0 > StageWidth - CollisionBuffer
        ELSE (ItemWidth + CollisionBuffer) * it.dur * vRate > elapsed * total

TrackAvailable(tr) == \A k \in 1..Len(tr.items) : ~ItemBlocks(tr.items[k])

\* findAvailableTrack without the fallback of line 756: no track when none is free
findFreeTrack(trs) ==
    LET free == {t \in 1..Len(trs) : TrackAvailable(trs[t])}
    IN  IF free # {} THEN {CHOOSE t \in free : \A u \in free : t <= u} ELSE {}

\* lines 720-757: the tracks findAvailableTrack can return (none when there is no
\* track: tracks[0] is undefined)
findAvailableTrack(trs) ==
    LET free == {t \in 1..Len(trs) : TrackAvailable(trs[t])}
    IN  IF free # {} THEN {CHOOSE t \in free : \A u \in free : t <= u}
        ELSE 1..Len(trs)

\* lines 692-714: the item emit() creates
EmitItem(i, top) ==
    [danmaku |-> i, cur |-> 0, dur |-> baseDuration \div settings.speed,
     playState |-> "running", startVideoTime |-> AdjustedTime, top |-> top]

\* lines 635-662: the item emitWithProgress() creates
ProgressItem(i, top, elapsed) ==
    LET adjustedDuration == baseDuration \div settings.speed
        progressMs == elapsed \div vRate
    IN  SetCurrentTime(
            [danmaku |-> i, cur |-> 0, dur |-> adjustedDuration, playState |-> "running",
             startVideoTime |-> danmakus[i].time, top |-> top],
            Max(0, Min(progressMs, adjustedDuration)))

NewItem(mode, i, top) ==
    IF mode = "emit" THEN EmitItem(i, top)
    ELSE ProgressItem(i, top, AdjustedTime - danmakus[i].time)

PushItem(trs, t, it) == [trs EXCEPT ![t].items = Append(@, it)]

\* What one call of findAvailableTrack returned: the track, whether the loop of
\* lines 727-754 returned it (it judged the track available) or line 756 drew it,
\* and the items the track held.
Spawn(trs, t) ==
    [track |-> t, judged |-> TrackAvailable(trs[t]), residents |-> trs[t].items]

\* emit() / emitWithProgress() for the comments ids, in order.  The result is the
\* set of outcomes [tracks, created, spawns]: one per draw of Math.random.
RECURSIVE EmitEach(_, _, _)
EmitEach(trs, ids, mode) ==
    IF ids = <<>> THEN {[tracks |-> trs, created |-> <<>>, spawns |-> <<>>]}
    ELSE LET i == Head(ids)
             choices == findAvailableTrack(trs)
         IN  IF choices = {} THEN EmitEach(trs, Tail(ids), mode)
             ELSE UNION {
                    { [tracks |-> r.tracks, created |-> <<i>> \o r.created,
                       spawns |-> <<Spawn(trs, t)>> \o r.spawns] :
                        r \in EmitEach(PushItem(trs, t, NewItem(mode, i, trs[t].top)),
                                       Tail(ids), mode) } :
                    t \in choices }

\* EmitCap without the slice
EmitUncapped(ids) == ids

\* lines 493-495: .sort(by time).slice(0, 10)
EmitCap(ids) == SubSeq(ids, 1, Min(Len(ids), MaxEmitPerPass))

\* lines 474-502: the comments one pass emits
DueIds(ds) ==
    LET due == {i \in 1..Len(ds) : IsDue(ds[i], AdjustedTime)}
        sorted == SortByTime([k \in 1..Len(ds) |-> [time |-> ds[k].time, id |-> k]])
    IN  EmitCap(SeqFilter([k \in 1..Len(sorted) |-> sorted[k].id], due))

\* lines 474-502: outcomes [tracks, danmakus, created] of checkAndEmitDanmakus
checkAndEmitDanmakus(trs, ds) ==
    IF ~settings.enabled
    THEN {[tracks |-> trs, danmakus |-> ds, created |-> <<>>, spawns |-> <<>>]}
    ELSE LET ids == DueIds(ds)
         IN  { [tracks |-> r.tracks, danmakus |-> MarkEmitted(ds, Range(ids)),
                created |-> r.created, spawns |-> r.spawns] :
                  r \in EmitEach(trs, ids, "emit") }

\* lines 578-610: outcomes [tracks, danmakus, created] of resyncDanmakus
resyncDanmakus(trs, ds) ==
    IF ~settings.enabled
    THEN {[tracks |-> trs, danmakus |-> ds, created |-> <<>>, spawns |-> <<>>]}
    ELSE LET active == {i \in 1..Len(ds) : IsActive(ds[i], AdjustedTime)}
             again == {i \in active : IsRespawned(ds[i], AdjustedTime)}
             ids == SeqFilter(Indices(ds), again)
         IN  { [tracks |-> r.tracks,
                danmakus |-> MarkEmitted(resetDanmakuStates(ds), again),
                created |-> r.created, spawns |-> r.spawns] :
                  r \in EmitEach(clear(trs), ids, "progress") }

\* Retired that waits for the animation to be cancelled
RetiredWhenIdle(it) == it.playState = "idle"

\* lines 759-794: cleanup keeps an item unless its animation is finished or at its end
Retired(it) == it.playState = "finished" \/ it.cur >= it.dur

\* KeepLive that leaves every item on its track
KeepAllItems(items) == items

RECURSIVE KeepLive(_)
KeepLive(items) ==
    IF items = <<>> THEN <<>>
    ELSE IF Retired(Head(items)) THEN KeepLive(Tail(items))
    ELSE <<Head(items)>> \o KeepLive(Tail(items))

cleanup(trs) == [t \in 1..Len(trs) |-> [trs[t] EXCEPT !.items = KeepLive(@)]]

\* An element leaves the stage: whose it is, and the play state of its animation
\* at that moment ("idle" when animation.cancel() has just been called).
Detach(it, cancelled) ==
    [danmaku |-> it.danmaku, playState |-> IF cancelled THEN "idle" ELSE it.playState]

\* lines 773-776 and 785-788: the elements cleanup removes (a finished animation
\* is not cancelled; one found at its end otherwise is)
cleanupRemoved(trs) ==
    LET gone == SelectSeq(AllItems(trs), Retired)
    IN  [k \in 1..Len(gone) |-> Detach(gone[k], gone[k].playState # "finished")]

\* lines 523-530: the elements clear() removes, each after animation.cancel()
clearRemoved(trs) == [k \in 1..Len(AllItems(trs)) |-> Detach(AllItems(trs)[k], TRUE)]

DetachedIds(removed) == {removed[k].danmaku : k \in 1..Len(removed)}

\* line 260
TrackHeight(s) == s.fontSize + s.trackSpacing

\* TrackCount over the whole height, whatever the display area
TrackCountWholeHeight(s, h) == h \div TrackHeight(s)

\* lines 258-261: floor(stageHeight * (displayAreaPercentage / 100) / trackHeight).
\* The source computes in doubles; for the percentages used here (50 and 100, whose
\* hundredth is a binary fraction) every step is exact, as it is in integers.
TrackCount(s, h) == (h * s.displayAreaPercentage) \div (100 * TrackHeight(s))

\* redistributeItemToNewTrack that puts every item on the first track
redistributeToFirstTrack(trs, it, trackHeight) ==
    IF Len(trs) = 0 THEN trs ELSE PushItem(trs, 1, [it EXCEPT !.top = trs[1].top])

\* lines 285-302: the tracks after one existing item is put back
redistributeItemToNewTrack(trs, it, trackHeight) ==
    LET trackIndex == it.top \div trackHeight
    IN  IF trackIndex >= Len(trs) THEN trs
        ELSE PushItem(trs, trackIndex + 1, [it EXCEPT !.top = trs[trackIndex + 1].top])

RECURSIVE Redistribute(_, _, _)
Redistribute(trs, items, trackHeight) ==
    IF items = <<>> THEN trs
    ELSE Redistribute(redistributeItemToNewTrack(trs, Head(items), trackHeight),
                      Tail(items), trackHeight)

\* lines 291-295: the elements initTracks removes (elem.remove() only)
initTracksRemoved(trs, s, h) ==
    LET Outside(it) == it.top \div TrackHeight(s) >= TrackCount(s, h)
        gone == SelectSeq(AllItems(trs), Outside)
    IN  [k \in 1..Len(gone) |-> Detach(gone[k], FALSE)]

\* initTracks that does not put the existing items back
initTracksEmpty(trs, s, h) ==
    [i \in 1..TrackCount(s, h) |-> [top |-> (i - 1) * TrackHeight(s), items |-> <<>>]]

\* lines 250-283
initTracks(trs, s, h) ==
    LET trackHeight == TrackHeight(s)
        fresh == [i \in 1..TrackCount(s, h) |-> [top |-> (i - 1) * trackHeight, items |-> <<>>]]
    IN  Redistribute(fresh, AllItems(trs), trackHeight)

\* ------------------------------------------------------- the refresh loop
\* The loop's fields as one record: id is emittingFrameId ("null", "pending": the
\* frame it names has not run, "fired": it has), frames the number of emitLoop
\* callbacks waiting, emitDue / cleanupDue whether the next frame's timestamp is
\* at least EmitInterval past lastEmitTime / lastCleanupTime.
Loop == [id |-> emittingFrameId, frames |-> loopFrames, emitDue |-> emitDue,
         cleanupDue |-> cleanupDue]

SetLoop(l) ==
    /\ emittingFrameId' = l.id
    /\ loopFrames' = l.frames
    /\ emitDue' = l.emitDue
    /\ cleanupDue' = l.cleanupDue

\* startEmitting that requests a frame without cancelling the pending one
startEmittingUncancelled(l) ==
    [id |-> "pending", frames |-> l.frames + 1, emitDue |-> TRUE, cleanupDue |-> TRUE]

\* lines 445-472, up to the first requestAnimationFrame
startEmitting(l) ==
    [id |-> "pending",
     frames |-> (IF l.id = "pending" THEN l.frames - 1 ELSE l.frames) + 1,
     emitDue |-> TRUE, cleanupDue |-> TRUE]

\* StopLoop that takes a frame back whether or not emittingFrameId names one
StopLoopBlind(l) == [l EXCEPT !.id = "null", !.frames = @ - 1]

\* lines 507-510
StopLoop(l) ==
    [l EXCEPT !.id = "null", !.frames = IF l.id = "pending" THEN @ - 1 ELSE @]

\* start() without the test of settings.enabled
startUnguarded(trs, l, s) ==
    [isStarted |-> TRUE, tracks |-> MapItems(trs, PlayItem), loop |-> startEmitting(l)]

\* lines 429-443: start() as [isStarted, tracks, loop]
start(trs, l, s) ==
    IF ~s.enabled THEN [isStarted |-> isStarted, tracks |-> trs, loop |-> l]
    ELSE [isStarted |-> TRUE, tracks |-> MapItems(trs, PlayItem), loop |-> startEmitting(l)]

\* lines 504-519: pause() as [isStarted, tracks, loop]
pause(trs, l) ==
    [isStarted |-> FALSE, tracks |-> MapItems(trs, PauseItem), loop |-> StopLoop(l)]

\* What a step did, kept in `last`: the handler that ran, whether its main branch
\* ran, and the comments it called emit() / emitWithProgress() for, in order.
Did(op, ran, created) ==
    [op |-> op, ran |-> ran, created |-> created, spawns |-> <<>>, removed |-> <<>>]

\* The same for a step that ran checkAndEmitDanmakus or resyncDanmakus with outcome r.
DidSpawn(op, ran, r) ==
    [op |-> op, ran |-> ran, created |-> r.created, spawns |-> r.spawns, removed |-> <<>>]

\* The same with the elements the step took off the stage, in order.
Removing(did, removed) == [did EXCEPT !.removed = removed]

\* The stage after resyncDanmakus with outcome r (lines 579, 583, 630)
ResyncStage(st, r) == IF settings.enabled THEN Range(r.created) ELSE st

\* The elements resyncDanmakus removes from the tracks trs (lines 579, 583)
resyncRemoved(trs) == IF settings.enabled THEN clearRemoved(trs) ELSE <<>>

DefaultSettings ==
    [enabled |-> TRUE, timeOffset |-> 0, opacity |-> 100, fontSize |-> 24, speed |-> 1,
     trackSpacing |-> 8, displayAreaPercentage |-> 100, weightThreshold |-> 0]

\* The state once the constructor has run (lines 156-204), for a comment source
\* that supplies `lists`, a container whose height is h0 and becomes one of
\* `heights`, and callers that pass `updates` to updateSettings and have set the
\* settings s0.
EngineInit(lists, heights, updates, h0, s0) ==
    /\ vTime = 0
    /\ vPaused \in BOOLEAN
    /\ vRate = 1
    /\ vSeeking = FALSE
    /\ containerHeight = h0
    /\ env = [lists |-> lists, heights |-> heights, updates |-> updates]
    /\ danmakus = <<>>
    /\ settings = s0
    /\ tracks = initTracks(<<>>, s0, h0)
    /\ isStarted = FALSE
    /\ lastVideoTime = 0
    /\ isRealSeeking = FALSE
    /\ pauseTime = 0
    /\ emittingFrameId = "null"
    /\ emitDue = TRUE
    /\ cleanupDue = TRUE
    /\ loopFrames = 0
    /\ loadTimers = 0
    /\ rebuildFrames = 0
    /\ fullscreenTimers = 0
    /\ destroyed = FALSE
    /\ inputs = 0
    /\ ticks = 0
    /\ flushed = FALSE
    /\ stage = {}
    /\ passedThisInterval = FALSE
    /\ last = Did("init", FALSE, <<>>)

\* No title utility has been called; OpenCC.Converter has succeeded (lines 827-830).
TitleIdle ==
    /\ title = [kind |-> "undefined"]
    /\ titleCall = "none"
    /\ titleOut = [kind |-> "undefined"]
    /\ openccConverter = "converter"

\* The content script on a page without a video: nothing is scheduled (line 879).
ScriptIdle ==
    /\ pageVideo = "none"
    /\ lastUrl = "none"
    /\ currentVideoId = "null"
    /\ danmakuEngine = "null"
    /\ engineList = [of |-> "none", shown |-> "none"]
    /\ storage = {}
    /\ initTimers = 0
    /\ autoTimers = 0
    /\ tasks = {}
    /\ navigations = 0

\* No message is in flight.
MessagesIdle == inbox = <<>> /\ responses = {}

\* No ad monitor runs (line 454: adMonitor is null).
AdIdle ==
    /\ adShowing = FALSE
    /\ lastAdStatus = FALSE
    /\ savedOpacity = 100
    /\ engineOpacity = 100
    /\ storedOpacity = <<>>
    /\ reads = <<>>
    /\ popupUpdates = <<>>
    /\ ads = 0
    /\ saves = 0

\* removeAdSegments is not called.
SegmentsIdle ==
    /\ segDanmakus = <<>>
    /\ youtubeVideoDuration = <<>>
    /\ skipResponse = [kind |-> "404"]
    /\ segResult = [kind |-> "pending"]

\* No association is stored and none is being saved or removed.
AssociationsIdle ==
    /\ channelMappings = [c \in {"UC1", "UC2"} |-> "undefined"]
    /\ assocCalls = <<>>

\* The cache is empty and no method of it is called.
CacheIdle ==
    /\ cache = {}
    /\ accessOrder = <<>>
    /\ cacheNow = 0
    /\ cacheOps = 0
    /\ usedAt = [k \in {"", "a", "b", "c"} |-> 0]
    /\ cacheLast = [op |-> "none", key |-> ""]

\* The page shows no channel and getChannelInfo is not called.
ChannelIdle ==
    /\ nameElements = <<>>
    /\ anchors = <<>>
    /\ avatarSrc = FALSE
    /\ channelCall = [at |-> "not called", retryCount |-> 0, attempts |-> 0,
                      delays |-> <<>>, thrown |-> FALSE,
                      result |-> [channelId |-> "", channelName |-> "",
                                  channelAvatar |-> "", success |-> FALSE]]

OuterIdle ==
    /\ TitleIdle
    /\ ScriptIdle
    /\ MessagesIdle
    /\ AdIdle
    /\ SegmentsIdle
    /\ AssociationsIdle
    /\ CacheIdle
    /\ ChannelIdle

InitWith(lists, heights, updates, h0, s0) ==
    EngineInit(lists, heights, updates, h0, s0) /\ OuterIdle

\* An engine nobody uses, for the specifications of the other components.
EngineIdle == EngineInit({ListA}, {64}, {}, 64, DefaultSettings)

IdleExceptTitle ==
    /\ EngineIdle
    /\ ScriptIdle
    /\ MessagesIdle
    /\ AdIdle
    /\ SegmentsIdle
    /\ AssociationsIdle
    /\ CacheIdle
    /\ ChannelIdle
IdleExceptScript ==
    /\ EngineIdle
    /\ TitleIdle
    /\ MessagesIdle
    /\ AdIdle
    /\ SegmentsIdle
    /\ AssociationsIdle
    /\ CacheIdle
    /\ ChannelIdle
IdleExceptMessages ==
    /\ EngineIdle
    /\ TitleIdle
    /\ ScriptIdle
    /\ AdIdle
    /\ SegmentsIdle
    /\ AssociationsIdle
    /\ CacheIdle
    /\ ChannelIdle
IdleExceptAd ==
    /\ EngineIdle
    /\ TitleIdle
    /\ ScriptIdle
    /\ MessagesIdle
    /\ SegmentsIdle
    /\ AssociationsIdle
    /\ CacheIdle
    /\ ChannelIdle
IdleExceptSegments ==
    /\ EngineIdle
    /\ TitleIdle
    /\ ScriptIdle
    /\ MessagesIdle
    /\ AdIdle
    /\ AssociationsIdle
    /\ CacheIdle
    /\ ChannelIdle
IdleExceptAssociations ==
    /\ EngineIdle
    /\ TitleIdle
    /\ ScriptIdle
    /\ MessagesIdle
    /\ AdIdle
    /\ SegmentsIdle
    /\ CacheIdle
    /\ ChannelIdle
IdleExceptCache ==
    /\ EngineIdle
    /\ TitleIdle
    /\ ScriptIdle
    /\ MessagesIdle
    /\ AdIdle
    /\ SegmentsIdle
    /\ AssociationsIdle
    /\ ChannelIdle
IdleExceptChannel ==
    /\ EngineIdle
    /\ TitleIdle
    /\ ScriptIdle
    /\ MessagesIdle
    /\ AdIdle
    /\ SegmentsIdle
    /\ AssociationsIdle
    /\ CacheIdle

Init == InitWith({ListA, ListB}, Heights, SettingsUpdates, 64, DefaultSettings)

\* ---------------------------------------------------------------- actions
\* EmitInterval ms of wall-clock time pass: a playing video moves on by its rate,
\* running animations move on, and the next frame is due for a pass.
Advance ==
    /\ UNCHANGED outerVars
    /\ UNCHANGED << flushed, stage >>
    /\ passedThisInterval' = FALSE
    /\ ticks < MaxTicks
    /\ ticks' = ticks + 1
    /\ vPaused \/ vSeeking \/ vTime + vRate * EmitInterval <= VideoEnd
    /\ vTime' = IF vPaused \/ vSeeking THEN vTime ELSE vTime + vRate * EmitInterval
    /\ tracks' = MapItems(tracks, AdvanceItem)
    /\ emitDue' = TRUE
    /\ cleanupDue' = TRUE
    /\ last' = Did("advance", FALSE, <<>>)
    /\ UNCHANGED << vPaused, vRate, vSeeking, containerHeight, env, danmakus, settings,
                    isStarted, lastVideoTime, isRealSeeking, pauseTime, emittingFrameId,
                    loopFrames, loadTimers, rebuildFrames, fullscreenTimers, destroyed,
                    inputs >>

\* lines 453-469: one emitLoop callback runs
Frame ==
    /\ UNCHANGED outerVars
    /\ UNCHANGED flushed
    /\ UNCHANGED << ticks, fullscreenTimers, destroyed >>
    /\ loopFrames > 0
    /\ LET run == isStarted /\ ~vPaused
           outcomes == IF run /\ emitDue THEN checkAndEmitDanmakus(tracks, danmakus)
                       ELSE {[tracks |-> tracks, danmakus |-> danmakus, created |-> <<>>,
                              spawns |-> <<>>]}
       IN  \E r \in outcomes :
             /\ tracks' = IF run /\ cleanupDue THEN cleanup(r.tracks) ELSE r.tracks
             /\ danmakus' = r.danmakus
             /\ emitDue' = IF run THEN FALSE ELSE emitDue
             /\ cleanupDue' = IF run THEN FALSE ELSE cleanupDue
             /\ LET gone == IF run /\ cleanupDue THEN cleanupRemoved(r.tracks) ELSE <<>>
                IN  /\ stage' = (stage \cup Range(r.created)) \ DetachedIds(gone)
                    /\ last' = Removing(DidSpawn("emitLoop", run /\ emitDue, r), gone)
             /\ passedThisInterval' = (passedThisInterval \/ (run /\ emitDue))
    /\ loopFrames' = IF isStarted THEN loopFrames ELSE loopFrames - 1
    /\ emittingFrameId' = IF isStarted THEN "pending"
                          ELSE IF emittingFrameId = "pending" THEN "fired"
                          ELSE emittingFrameId
    /\ UNCHANGED << videoVars, containerHeight, env, settings, isStarted, lastVideoTime,
                    isRealSeeking, pauseTime, loadTimers, rebuildFrames, inputs >>

\* line 310: the video starts playing
PlayEvent ==
    /\ UNCHANGED outerVars
    /\ UNCHANGED << flushed, stage, passedThisInterval >>
    /\ UNCHANGED << ticks, fullscreenTimers, destroyed >>
    /\ vPaused
    /\ vPaused' = FALSE
    /\ LET r == start(tracks, Loop, settings)
       IN  /\ isStarted' = r.isStarted
           /\ tracks' = r.tracks
           /\ SetLoop(r.loop)
    /\ last' = Did("play", settings.enabled, <<>>)
    /\ UNCHANGED << vTime, vRate, vSeeking, containerHeight, env, danmakus, settings,
                    lastVideoTime, isRealSeeking, pauseTime, loadTimers, rebuildFrames,
                    inputs >>

\* lines 311-315: the video pauses
PauseEvent ==
    /\ UNCHANGED outerVars
    /\ UNCHANGED << flushed, stage, passedThisInterval >>
    /\ UNCHANGED << ticks, fullscreenTimers, destroyed >>
    /\ ~vPaused
    /\ vPaused' = TRUE
    /\ LET r == pause(tracks, Loop)
       IN  /\ isStarted' = r.isStarted
           /\ tracks' = r.tracks
           /\ SetLoop(r.loop)
    /\ pauseTime' = vTime
    /\ last' = Did("pause", TRUE, <<>>)
    /\ UNCHANGED << vTime, vRate, vSeeking, containerHeight, env, danmakus, settings,
                    lastVideoTime, isRealSeeking, loadTimers, rebuildFrames, inputs >>

\* line 320: the time the seeking handler compares the new time with
SeekReference == IF pauseTime > 0 THEN pauseTime ELSE lastVideoTime

\* line 323
IsRealSeek(currentTime) == Abs(currentTime - SeekReference) > seekingThreshold

\* lines 317-335: the video's position is set to t
SeekingEvent(t) ==
    /\ UNCHANGED outerVars
    /\ flushed' = (flushed \/ IsRealSeek(t))
    /\ UNCHANGED << ticks, fullscreenTimers, destroyed, passedThisInterval >>
    /\ inputs < MaxInputs
    /\ t >= 0 /\ t <= VideoEnd
    /\ inputs' = inputs + 1
    /\ vTime' = t
    /\ vSeeking' = TRUE
    /\ IF IsRealSeek(t)
       THEN /\ isRealSeeking' = TRUE
            /\ tracks' = clear(tracks)
            /\ danmakus' = resetDanmakuStates(danmakus)
            /\ isStarted' = FALSE
            /\ stage' = {}
       ELSE /\ isRealSeeking' = FALSE
            /\ UNCHANGED << tracks, danmakus, isStarted, stage >>
    /\ lastVideoTime' = t
    /\ last' = Removing(Did("seeking", IsRealSeek(t), <<>>),
                        IF IsRealSeek(t) THEN clearRemoved(tracks) ELSE <<>>)
    /\ UNCHANGED << vPaused, vRate, containerHeight, env, settings, pauseTime,
                    emittingFrameId, emitDue, cleanupDue, loopFrames, loadTimers,
                    rebuildFrames >>

\* lines 337-346: the seek completes
SeekedEvent ==
    /\ UNCHANGED outerVars
    /\ flushed' = FALSE
    /\ UNCHANGED << ticks, fullscreenTimers, destroyed, passedThisInterval >>
    /\ vSeeking
    /\ vSeeking' = FALSE
    /\ IF isRealSeeking
       THEN \E r \in resyncDanmakus(tracks, danmakus) :
              LET s == IF ~vPaused THEN start(r.tracks, Loop, settings)
                       ELSE [isStarted |-> isStarted, tracks |-> r.tracks, loop |-> Loop]
              IN  /\ danmakus' = r.danmakus
                  /\ tracks' = s.tracks
                  /\ isStarted' = s.isStarted
                  /\ SetLoop(s.loop)
                  /\ stage' = ResyncStage(stage, r)
                  /\ last' = Removing(DidSpawn("seeked", settings.enabled, r),
                                      resyncRemoved(tracks))
       ELSE /\ last' = Did("seeked", FALSE, <<>>)
            /\ UNCHANGED << danmakus, tracks, isStarted, emittingFrameId, emitDue,
                            cleanupDue, loopFrames, stage >>
    /\ isRealSeeking' = FALSE
    /\ UNCHANGED << vTime, vPaused, vRate, containerHeight, env, settings, lastVideoTime,
                    pauseTime, loadTimers, rebuildFrames, inputs >>

\* lines 348-350: the playback rate becomes r
RateChangeEvent(r) ==
    /\ UNCHANGED outerVars
    /\ UNCHANGED << flushed, stage, passedThisInterval >>
    /\ UNCHANGED << ticks, fullscreenTimers, destroyed >>
    /\ inputs < MaxInputs
    /\ r # vRate
    /\ inputs' = inputs + 1
    /\ vRate' = r
    /\ tracks' = handleSpeedChange(tracks, r)
    /\ last' = Did("ratechange", TRUE, <<>>)
    /\ UNCHANGED << vTime, vPaused, vSeeking, containerHeight, env, danmakus, settings,
                    isStarted, lastVideoTime, isRealSeeking, pauseTime, emittingFrameId,
                    emitDue, cleanupDue, loopFrames, loadTimers, rebuildFrames >>

\* lines 353-365
loadDanmakus(list) ==
    /\ UNCHANGED outerVars
    /\ UNCHANGED flushed
    /\ UNCHANGED << ticks, fullscreenTimers, destroyed, passedThisInterval >>
    /\ ~destroyed
    /\ inputs < MaxInputs
    /\ inputs' = inputs + 1
    /\ danmakus' = SortByTime([i \in 1..Len(list) |-> WithEmitted(list[i])])
    /\ tracks' = clear(tracks)
    /\ loadTimers' = IF ~vPaused THEN loadTimers + 1 ELSE loadTimers
    /\ stage' = {}
    /\ last' = Removing(Did("loadDanmakus", ~vPaused, <<>>), clearRemoved(tracks))
    /\ UNCHANGED << videoVars, containerHeight, env, settings, isStarted, lastVideoTime,
                    isRealSeeking, pauseTime, emittingFrameId, emitDue, cleanupDue,
                    loopFrames, rebuildFrames >>

\* lines 360-363: the timer loadDanmakus set runs
LoadTimer ==
    /\ UNCHANGED outerVars
    /\ UNCHANGED flushed
    /\ UNCHANGED << ticks, fullscreenTimers, destroyed, passedThisInterval >>
    /\ loadTimers > 0
    /\ loadTimers' = loadTimers - 1
    /\ \E r \in resyncDanmakus(tracks, danmakus) :
          /\ danmakus' = r.danmakus
          /\ tracks' = r.tracks
          /\ stage' = ResyncStage(stage, r)
          /\ last' = Removing(DidSpawn("loadTimer", settings.enabled, r),
                              resyncRemoved(tracks))
    /\ SetLoop(startEmitting(Loop))
    /\ UNCHANGED << videoVars, containerHeight, env, settings, isStarted, lastVideoTime,
                    isRealSeeking, pauseTime, rebuildFrames, inputs >>

\* lines 367-396
updateSettings(p) ==
    /\ UNCHANGED outerVars
    /\ UNCHANGED flushed
    /\ UNCHANGED << ticks, fullscreenTimers, destroyed, passedThisInterval >>
    /\ ~destroyed
    /\ inputs < MaxInputs
    /\ inputs' = inputs + 1
    /\ LET new == MergeSettings(settings, p)
           sped == IF settings.speed # new.speed
                   THEN updateAnimationSpeeds(tracks, new.speed) ELSE tracks
           laid == initTracks(sped, new, containerHeight)
           rebuild == new.enabled /\ settings.weightThreshold # new.weightThreshold
           r == IF ~new.enabled THEN pause(clear(laid), Loop)
                ELSE IF ~rebuild /\ ~vPaused THEN start(laid, Loop, new)
                ELSE [isStarted |-> isStarted, tracks |-> laid, loop |-> Loop]
       IN  /\ settings' = new
           /\ tracks' = r.tracks
           /\ isStarted' = r.isStarted
           /\ SetLoop(r.loop)
           /\ rebuildFrames' = IF rebuild THEN rebuildFrames + 1 ELSE rebuildFrames
           /\ stage' = IF ~new.enabled THEN {}
                       ELSE stage \ DetachedIds(initTracksRemoved(sped, new, containerHeight))
           /\ last' = Removing(Did("updateSettings", rebuild, <<>>),
                               initTracksRemoved(sped, new, containerHeight)
                                 \o (IF ~new.enabled THEN clearRemoved(laid) ELSE <<>>))
    /\ UNCHANGED << videoVars, containerHeight, env, danmakus, lastVideoTime,
                    isRealSeeking, pauseTime, loadTimers >>

\* lines 414-427: the frame rebuildDanmakusAsync asked for runs
RebuildFrame ==
    /\ UNCHANGED outerVars
    /\ UNCHANGED flushed
    /\ UNCHANGED << ticks, fullscreenTimers, destroyed, passedThisInterval >>
    /\ rebuildFrames > 0
    /\ rebuildFrames' = rebuildFrames - 1
    /\ IF ~vPaused
       THEN \E r \in resyncDanmakus(clear(tracks), resetDanmakuStates(danmakus)) :
              LET s == start(r.tracks, Loop, settings)
              IN  /\ danmakus' = r.danmakus
                  /\ tracks' = s.tracks
                  /\ isStarted' = s.isStarted
                  /\ SetLoop(s.loop)
                  /\ stage' = ResyncStage({}, r)
                  /\ last' = Removing(DidSpawn("rebuild", settings.enabled, r),
                                      clearRemoved(tracks))
       ELSE /\ danmakus' = resetDanmakuStates(danmakus)
            /\ tracks' = clear(tracks)
            /\ stage' = {}
            /\ last' = Removing(Did("rebuild", FALSE, <<>>), clearRemoved(tracks))
            /\ UNCHANGED << isStarted, emittingFrameId, emitDue, cleanupDue, loopFrames >>
    /\ UNCHANGED << videoVars, containerHeight, env, settings, lastVideoTime,
                    isRealSeeking, pauseTime, loadTimers, inputs >>

\* lines 208-211: the ResizeObserver reports a container of height h (it reports
\* nothing once destroy() has disconnected it, line 809)
Resize(h) ==
    /\ UNCHANGED outerVars
    /\ UNCHANGED flushed
    /\ UNCHANGED << ticks, fullscreenTimers, destroyed, passedThisInterval >>
    /\ ~destroyed
    /\ inputs < MaxInputs
    /\ inputs' = inputs + 1
    /\ containerHeight' = h
    /\ tracks' = initTracks(tracks, settings, h)
    /\ stage' = stage \ DetachedIds(initTracksRemoved(tracks, settings, h))
    /\ last' = Removing(Did("resize", TRUE, <<>>), initTracksRemoved(tracks, settings, h))
    /\ UNCHANGED << videoVars, env, danmakus, settings, isStarted, lastVideoTime,
                    isRealSeeking, pauseTime, emittingFrameId, emitDue, cleanupDue,
                    loopFrames, loadTimers, rebuildFrames >>

\* lines 219-220, 242-248: the document enters or leaves fullscreen
FullscreenChange ==
    /\ UNCHANGED outerVars
    /\ inputs < MaxInputs
    /\ inputs' = inputs + 1
    /\ fullscreenTimers' = fullscreenTimers + 1
    /\ last' = Did("fullscreenchange", TRUE, <<>>)
    /\ UNCHANGED << videoVars, containerHeight, env, danmakus, tracks, settings, isStarted,
                    lastVideoTime, isRealSeeking, pauseTime, emittingFrameId, emitDue,
                    cleanupDue, loopFrames, loadTimers, rebuildFrames, destroyed, ticks,
                    flushed, stage, passedThisInterval >>

\* lines 243-247: the timer handleFullscreenChange set runs
FullscreenTimer ==
    /\ UNCHANGED outerVars
    /\ fullscreenTimers > 0
    /\ fullscreenTimers' = fullscreenTimers - 1
    /\ tracks' = initTracks(tracks, settings, containerHeight)
    /\ stage' = stage \ DetachedIds(initTracksRemoved(tracks, settings, containerHeight))
    /\ last' = Removing(Did("fullscreenTimer", TRUE, <<>>),
                        initTracksRemoved(tracks, settings, containerHeight))
    /\ UNCHANGED << videoVars, containerHeight, env, danmakus, settings, isStarted,
                    lastVideoTime, isRealSeeking, pauseTime, emittingFrameId, emitDue,
                    cleanupDue, loopFrames, loadTimers, rebuildFrames, destroyed, inputs,
                    ticks, flushed, passedThisInterval >>

\* lines 796-811: destroy() is called; `ran` tells whether it is the first call.
\* The owner then drops its reference to the engine
\* (src/entrypoints/background/index.ts, lines 531-539), so that loadDanmakus and
\* updateSettings are not called on it any more.
destroy ==
    /\ UNCHANGED outerVars
    /\ inputs < MaxInputs
    /\ inputs' = inputs + 1
    /\ destroyed' = TRUE
    /\ LET r == pause(tracks, Loop)
       IN  /\ isStarted' = r.isStarted
           /\ tracks' = clear(r.tracks)
           /\ SetLoop(StopLoop(r.loop))
    /\ stage' = {}
    /\ last' = Removing(Did("destroy", ~destroyed, <<>>), clearRemoved(tracks))
    /\ UNCHANGED << videoVars, containerHeight, env, danmakus, settings, lastVideoTime,
                    isRealSeeking, pauseTime, loadTimers, rebuildFrames, fullscreenTimers,
                    ticks, flushed, passedThisInterval >>

Next ==
    \/ Advance
    \/ Frame
    \/ PlayEvent
    \/ PauseEvent
    \/ \E d \in SeekDeltas : SeekingEvent(vTime + d)
    \/ SeekedEvent
    \/ \E r \in Rates : RateChangeEvent(r)
    \/ \E list \in env.lists : loadDanmakus(list)
    \/ LoadTimer
    \/ \E p \in env.updates : updateSettings(p)
    \/ RebuildFrame
    \/ \E h \in env.heights : Resize(h)
    \/ FullscreenChange
    \/ FullscreenTimer
    \/ destroy

Spec == Init /\ [][Next]_vars

\* The engine once updateSettings({weightThreshold: 5}) has been applied to the
\* fresh engine (the rebuild it asks for changes nothing: no comment is loaded).
InitWeight ==
    InitWith({ListA}, {0, 64}, {[weightThreshold |-> 0], [timeOffset |-> 500]}, 64,
             [DefaultSettings EXCEPT !.weightThreshold = 5])

SpecWeight == InitWeight /\ [][Next]_vars

\* A container that grows to 300 px or shrinks to one track, and callers that
\* change the geometry settings and the opacity.
InitLayout ==
    InitWith({ListA}, {32, 300},
             { [displayAreaPercentage |-> 50], [fontSize |-> 56], [opacity |-> 0],
               [weightThreshold |-> 5] },
             64, DefaultSettings)

SpecLayout == InitLayout /\ [][Next]_vars

\* A comment source with more due comments than one pass emits, over one track.
InitCap == InitWith({ListBig}, {32}, {[weightThreshold |-> 5]}, 32, DefaultSettings)

SpecCap == InitCap /\ [][Next]_vars

\* Playback that nothing but a pause or a seek interrupts: the comments are loaded,
\* the video plays, is paused, or jumps past the comments' flight time; the rate and
\* the settings stay as they are.
ListOne == << [time |-> 1500, weight |-> 5] >>

InitPlayback == InitWith({ListOne}, {64}, {}, 64, DefaultSettings)

FarSeeks == {d \in SeekDeltas : d > ResyncWindowPast}

NextPlayback ==
    \/ Advance
    \/ Frame
    \/ PlayEvent
    \/ PauseEvent
    \/ \E d \in FarSeeks : SeekingEvent(vTime + d)
    \/ SeekedEvent
    \/ \E list \in env.lists : loadDanmakus(list)
    \/ LoadTimer

\* requestAnimationFrame runs a pending callback, and time passes
SpecPlayback == InitPlayback /\ [][NextPlayback]_vars /\ WF_vars(Frame) /\ WF_vars(Advance)

\* ------------------------------------------------------ the title utilities
\* cleanVideoTitle and traditionalToSimplifiedChinese (src/services/bilibili-api.ts,
\* lines 937-986).  A string is a sequence of characters; "[" and "]" stand for the
\* brackets U+3010 and U+3011, " " for any white space, "a" for any other
\* character and "t" for a traditional character whose simplified form is "s".
MaxTitleLen == 4
TitleChars == {"[", "]", "#", " ", "a", "t"}

Str(text) == [kind |-> "string", text |-> text]

TitleStrings == UNION {[1..n -> TitleChars] : n \in 0..MaxTitleLen}

\* What a caller may pass: null, undefined or a string.
TitleInputs == {[kind |-> "null"], [kind |-> "undefined"]} \cup {Str(t) : t \in TitleStrings}

\* `!title`: null, undefined and the empty string are falsy
Falsy(x) == x.kind # "string" \/ x.text = <<>>

RECURSIVE TrimLeft(_)
TrimLeft(s) == IF s # <<>> /\ Head(s) = " " THEN TrimLeft(Tail(s)) ELSE s

RECURSIVE TrimRight(_)
TrimRight(s) ==
    IF s # <<>> /\ s[Len(s)] = " " THEN TrimRight(SubSeq(s, 1, Len(s) - 1)) ELSE s

\* String.prototype.trim
Trim(s) == TrimLeft(TrimRight(s))

\* the index of the first c in s, 0 when there is none
IndexOf(s, c) ==
    IF \E i \in 1..Len(s) : s[i] = c
    THEN CHOOSE i \in 1..Len(s) : s[i] = c /\ \A j \in 1..(i - 1) : s[j] # c
    ELSE 0

Drop(s, n) == SubSeq(s, n + 1, Len(s))

\* line 943: replace(/【[^】]*】/g, '')
RECURSIVE RemoveBracketed(_)
RemoveBracketed(s) ==
    IF s = <<>> THEN <<>>
    ELSE IF Head(s) = "[" /\ IndexOf(Tail(s), "]") > 0
         THEN RemoveBracketed(Drop(Tail(s), IndexOf(Tail(s), "]")))
         ELSE <<Head(s)>> \o RemoveBracketed(Tail(s))

\* line 946: replace(/^【[^】]*】\s*/g, '')
RemoveLeadingBracketed(s) ==
    IF s # <<>> /\ Head(s) = "[" /\ IndexOf(Tail(s), "]") > 0
    THEN TrimLeft(Drop(Tail(s), IndexOf(Tail(s), "]")))
    ELSE s

\* the number of leading characters of s that [^\s#] matches
RECURSIVE TagLen(_)
TagLen(s) == IF s # <<>> /\ Head(s) \notin {" ", "#"} THEN 1 + TagLen(Tail(s)) ELSE 0

\* s matches #[^\s#]+(\s*#[^\s#]+)*\s*$ from its first character
RECURSIVE TagSeq(_)
TagSeq(s) ==
    /\ s # <<>>
    /\ Head(s) = "#"
    /\ TagLen(Tail(s)) > 0
    /\ LET rest == TrimLeft(Drop(Tail(s), TagLen(Tail(s))))
       IN  rest = <<>> \/ TagSeq(rest)

\* line 949: replace(/\s*#[^\s#]+(\s*#[^\s#]+)*\s*$/g, ''): the leftmost match
RemoveTagTail(s) ==
    LET starts == {i \in 1..Len(s) : TagSeq(TrimLeft(Drop(s, i - 1)))}
    IN  IF starts = {} THEN s
        ELSE SubSeq(s, 1, (CHOOSE i \in starts : \A j \in starts : i <= j) - 1)

\* line 952: replace(/\s+/g, ' ')
RECURSIVE CollapseSpaces(_)
CollapseSpaces(s) ==
    IF Len(s) < 2 THEN s
    ELSE IF s[1] = " " /\ s[2] = " " THEN CollapseSpaces(Tail(s))
    ELSE <<Head(s)>> \o CollapseSpaces(Tail(s))

\* OrOriginal that returns the cleaned title even when it is empty
OrEmpty(cleanedTitle, text) == cleanedTitle

\* lines 955-958: the original title, trimmed, when nothing is left
OrOriginal(cleanedTitle, text) == IF cleanedTitle = <<>> THEN Trim(text) ELSE cleanedTitle

\* lines 937-962
cleanVideoTitle(x) ==
    IF Falsy(x) THEN Str(<<>>)
    ELSE LET step1 == RemoveBracketed(x.text)
             step2 == RemoveLeadingBracketed(step1)
             step3 == RemoveTagTail(step2)
             step4 == Trim(CollapseSpaces(step3))
         IN  Str(OrOriginal(step4, x.text))

\* the converter OpenCC.Converter({ from: 'tw', to: 'cn' }) returns (line 829)
Simplified(text) == [i \in 1..Len(text) |-> IF text[i] = "t" THEN "s" ELSE text[i]]

\* lines 969-986: with the converter there, missing (its construction failed,
\* lines 831-833) or throwing
traditionalToSimplifiedChinese(x, converter) ==
    IF Falsy(x) THEN Str(<<>>)
    ELSE IF converter = "converter" THEN Str(Simplified(x.text))
    ELSE Str(x.text)

InitTitle ==
    /\ IdleExceptTitle
    /\ title \in TitleInputs
    /\ titleCall = "none"
    /\ titleOut = [kind |-> "undefined"]
    /\ openccConverter \in {"converter", "null", "throws"}

CleanTitle ==
    /\ titleCall = "none"
    /\ titleCall' = "cleanVideoTitle"
    /\ titleOut' = cleanVideoTitle(title)
    /\ UNCHANGED << title, openccConverter >>
    /\ UNCHANGED notTitle

ConvertTitle ==
    /\ titleCall = "none"
    /\ titleCall' = "traditionalToSimplifiedChinese"
    /\ titleOut' = traditionalToSimplifiedChinese(title, openccConverter)
    /\ UNCHANGED << title, openccConverter >>
    /\ UNCHANGED notTitle

NextTitle == CleanTitle \/ ConvertTitle

SpecTitle == InitTitle /\ [][NextTitle]_vars

\* ------------------------------------------------------ the content script
\* main() of the content script (src/entrypoints/background/index.ts, lines 449-887).
\* A page is named by the video it shows; an activation of an async function is
\* [fn, at, videoId]: the function, the await it is suspended at, and its local
\* variable videoId.
MaxNavigations == 2
Videos == {"X", "Y"}

NoList == [of |-> "none", shown |-> "none"]

Activation(fn, at, videoId) == [fn |-> fn, at |-> at, videoId |-> videoId]

\* lines 450-454 and 878-885: the script is injected into the page of video "X"
InitScript ==
    /\ IdleExceptScript
    /\ pageVideo = "X"
    /\ lastUrl = "X"
    /\ currentVideoId = "X"
    /\ danmakuEngine = "null"
    /\ engineList = NoList
    /\ storage \in SUBSET Videos
    /\ initTimers = 1
    /\ autoTimers = 0
    /\ tasks = {}
    /\ navigations = 0

\* the page moves on to another video (YouTube changes location.href in place)
Navigate(v) ==
    /\ navigations < MaxNavigations
    /\ v # pageVideo
    /\ navigations' = navigations + 1
    /\ pageVideo' = v
    /\ UNCHANGED << lastUrl, currentVideoId, danmakuEngine, engineList, storage,
                    initTimers, autoTimers, tasks >>
    /\ UNCHANGED notScript

\* lines 749-756 and 760-787: the MutationObserver sees the new URL and calls
\* handleUrlChange
UrlObserved ==
    /\ pageVideo # lastUrl
    /\ lastUrl' = pageVideo
    /\ IF pageVideo # currentVideoId
       THEN currentVideoId' = pageVideo /\ initTimers' = initTimers + 1
       ELSE UNCHANGED << currentVideoId, initTimers >>
    /\ UNCHANGED << pageVideo, danmakuEngine, engineList, storage, autoTimers, tasks,
                    navigations >>
    /\ UNCHANGED notScript

\* lines 517-539: the timer of line 782 or 881 runs initDanmakuEngine up to the
\* await of loadSettings(); without a video container it returns at once
InitTimer ==
    /\ initTimers > 0
    /\ initTimers' = initTimers - 1
    /\ \E found \in BOOLEAN :
         IF found
         THEN /\ danmakuEngine' = "engine"
              /\ engineList' = NoList
              /\ tasks' = tasks \cup {Activation("initDanmakuEngine", "loadSettings", "none")}
         ELSE UNCHANGED << danmakuEngine, engineList, tasks >>
    /\ UNCHANGED << pageVideo, lastUrl, currentVideoId, storage, autoTimers, navigations >>
    /\ UNCHANGED notScript

\* lines 540-544 and 576: loadSettings() has returned; initDanmakuEngine reads
\* getVideoId() and waits for the storage read of loadDanmakuForVideo
SettingsLoaded ==
    \E a \in tasks :
      /\ a.fn = "initDanmakuEngine" /\ a.at = "loadSettings"
      /\ tasks' = (tasks \ {a}) \cup
                    {Activation("initDanmakuEngine", "loadDanmakuForVideo", pageVideo)}
      /\ UNCHANGED << pageVideo, lastUrl, currentVideoId, danmakuEngine, engineList,
                      storage, initTimers, autoTimers, navigations >>
      /\ UNCHANGED notScript

\* lines 577-588: loadDanmakuForVideo(videoId) once storage has answered
loadDanmakuForVideo(videoId) ==
    IF videoId \in storage /\ danmakuEngine # "null"
    THEN [of |-> videoId, shown |-> pageVideo]
    ELSE engineList

\* lines 544-551: the storage read of initDanmakuEngine's loadDanmakuForVideo is back
InitLoadDone ==
    \E a \in tasks :
      /\ a.fn = "initDanmakuEngine" /\ a.at = "loadDanmakuForVideo"
      /\ tasks' = tasks \ {a}
      /\ engineList' = loadDanmakuForVideo(a.videoId)
      /\ autoTimers' = IF a.videoId \in storage THEN autoTimers ELSE autoTimers + 1
      /\ UNCHANGED << pageVideo, lastUrl, currentVideoId, danmakuEngine, storage,
                      initTimers, navigations >>
      /\ UNCHANGED notScript

\* lines 596-604: the timer of line 547 runs autoCheckAndDownloadDanmaku, which
\* reads getVideoId() and waits for the channel, the title and the search
AutoCheckTimer ==
    /\ autoTimers > 0
    /\ autoTimers' = autoTimers - 1
    /\ tasks' = tasks \cup {Activation("autoCheckAndDownloadDanmaku", "search", pageVideo)}
    /\ UNCHANGED << pageVideo, lastUrl, currentVideoId, danmakuEngine, engineList,
                    storage, initTimers, navigations >>
    /\ UNCHANGED notScript

\* lines 604-702: the look-ups are back; with one match the download is requested
SearchDone ==
    \E a \in tasks, single \in BOOLEAN :
      /\ a.fn = "autoCheckAndDownloadDanmaku" /\ a.at = "search"
      /\ tasks' = (tasks \ {a}) \cup
                    (IF single
                     THEN {Activation("autoCheckAndDownloadDanmaku", "download", a.videoId)}
                     ELSE {})
      /\ UNCHANGED << pageVideo, lastUrl, currentVideoId, danmakuEngine, engineList,
                      storage, initTimers, autoTimers, navigations >>
      /\ UNCHANGED notScript

\* lines 636-656 and 698-719: the background answers the download request; on
\* success it has stored the comments under the video's id
DownloadDone ==
    \E a \in tasks, success \in BOOLEAN :
      /\ a.fn = "autoCheckAndDownloadDanmaku" /\ a.at = "download"
      /\ storage' = IF success THEN storage \cup {a.videoId} ELSE storage
      /\ tasks' = (tasks \ {a}) \cup
                    (IF success /\ danmakuEngine # "null"
                     THEN {Activation("autoCheckAndDownloadDanmaku", "loadDanmakuForVideo",
                                      a.videoId)}
                     ELSE {})
      /\ UNCHANGED << pageVideo, lastUrl, currentVideoId, danmakuEngine, engineList,
                      initTimers, autoTimers, navigations >>
      /\ UNCHANGED notScript

\* lines 651-653 and 714-716: the storage read of the download's
\* loadDanmakuForVideo is back
AutoLoadDone ==
    \E a \in tasks :
      /\ a.fn = "autoCheckAndDownloadDanmaku" /\ a.at = "loadDanmakuForVideo"
      /\ tasks' = tasks \ {a}
      /\ engineList' = loadDanmakuForVideo(a.videoId)
      /\ UNCHANGED << pageVideo, lastUrl, currentVideoId, danmakuEngine, storage,
                      initTimers, autoTimers, navigations >>
      /\ UNCHANGED notScript

NextScript ==
    \/ \E v \in Videos : Navigate(v)
    \/ UrlObserved
    \/ InitTimer
    \/ SettingsLoaded
    \/ InitLoadDone
    \/ AutoCheckTimer
    \/ SearchDone
    \/ DownloadDone
    \/ AutoLoadDone

SpecScript == InitScript /\ [][NextScript]_vars

\* --------------------------------------------------- extension messaging
\* The requests the content script and the popup send with
\* browser.runtime.sendMessage, and the background's listener
\* (src/entrypoints/background/index.ts, lines 305-407).
MaxMessages == 2

\* the cases of the switch (lines 312-390)
HandledTypes ==
    { "GET_DANMAKU", "SEARCH_VIDEO", "SEARCH_USER", "SEARCH_BANGUMI", "GET_BANGUMI_EPISODE",
      "UPDATE_PAGE_INFO", "GET_PAGE_INFO", "SHOW_MULTIPLE_RESULTS", "GET_PENDING_RESULTS",
      "GET_PENDING_NO_MATCH" }

\* lines 493, 636, 646, 688, 703, 727, 738, 775 and src/unnamed/part_003 line 354
ContentScriptTypes ==
    { "pageInfoUpdated", "downloadBangumiDanmaku", "cleanupExpiredDanmaku",
      "searchBilibiliVideo", "downloadDanmaku", "showMultipleResults",
      "showNoMatchResults", "pageChanged", "fetchOriginalTitle" }

\* lines 1205, 1396, 1466, 1478, 1837, 2053, 2149, 2173 and 2235
PopupTypes ==
    { "downloadDanmaku", "getPageInfoFromBackground", "searchBilibiliUser",
      "searchBilibiliVideoGlobal", "searchBilibiliVideo", "downloadBangumiDanmaku",
      "clearSearchResults", "popupReady" }

\* lines 392-393: the default case's response
UnknownType == [success |-> FALSE, error |-> "unknown message type"]

\* lines 311-394: the response to a request of the given type (a case's own
\* response is not told apart here)
onMessage(type) ==
    IF type \in HandledTypes THEN [success |-> TRUE, error |-> "none"] ELSE UnknownType

InitMessages == IdleExceptMessages /\ inbox = <<>> /\ responses = {}

Sent == Len(inbox) + Cardinality(responses)

SendFromContentScript(type) ==
    /\ Sent < MaxMessages
    /\ inbox' = Append(inbox, [type |-> type, from |-> "content script"])
    /\ UNCHANGED responses
    /\ UNCHANGED notMessages

SendFromPopup(type) ==
    /\ Sent < MaxMessages
    /\ inbox' = Append(inbox, [type |-> type, from |-> "popup"])
    /\ UNCHANGED responses
    /\ UNCHANGED notMessages

\* lines 305-407: the listener takes the next request and responds
BackgroundOnMessage ==
    /\ inbox # <<>>
    /\ inbox' = Tail(inbox)
    /\ responses' = responses \cup {[to |-> Head(inbox), response |-> onMessage(Head(inbox).type)]}
    /\ UNCHANGED notMessages

NextMessages ==
    \/ \E type \in ContentScriptTypes : SendFromContentScript(type)
    \/ \E type \in PopupTypes : SendFromPopup(type)
    \/ BackgroundOnMessage

SpecMessages == InitMessages /\ [][NextMessages]_vars

\* ------------------------------------------------------------ the ad monitor
\* startAdStatusMonitoring (src/entrypoints/background/index.ts, lines 790-818),
\* AdMonitor (src/unnamed/part_003, lines 58-118) and the popup's saveSettings
\* (lines 1057-1087).  The engine is seen through the opacity of its settings,
\* which updateSettings overwrites with the one it is passed.
MaxAds == 1
MaxSaves == 2

\* opacities the popup may save
Opacities == {50, 100}

\* line 803: settings?.opacity || 100
OrDefaultOpacity(stored) == IF stored = <<>> \/ stored = <<0>> THEN 100 ELSE stored[1]

\* lines 559-565: result.danmakuSettings || { ..., opacity: 100, ... }
ConfiguredOpacity(stored) == IF stored = <<>> THEN 100 ELSE stored[1]

\* lines 557-569: loadSettings has given the engine the stored settings, or the
\* defaults; line 796: savedOpacity = 100
InitAd ==
    /\ IdleExceptAd
    /\ adShowing = FALSE
    /\ lastAdStatus = FALSE
    /\ savedOpacity = 100
    /\ storedOpacity \in {<<>>} \cup {<<o>> : o \in Opacities}
    /\ engineOpacity = ConfiguredOpacity(storedOpacity)
    /\ reads = <<>>
    /\ popupUpdates = <<>>
    /\ ads = 0
    /\ saves = 0

\* the page starts to show an ad
AdBegins ==
    /\ ~adShowing
    /\ ads < MaxAds
    /\ ads' = ads + 1
    /\ adShowing' = TRUE
    /\ UNCHANGED << lastAdStatus, savedOpacity, engineOpacity, storedOpacity, reads,
                    popupUpdates, saves >>
    /\ UNCHANGED notAd

\* the ad is over
AdEnds ==
    /\ adShowing
    /\ adShowing' = FALSE
    /\ UNCHANGED << lastAdStatus, savedOpacity, engineOpacity, storedOpacity, reads,
                    popupUpdates, ads, saves >>
    /\ UNCHANGED notAd

\* part_003 lines 98-118 with the callbacks of lines 798-814: the interval timer
\* runs check()
AdCheck ==
    /\ lastAdStatus' = adShowing
    /\ IF adShowing = lastAdStatus
       THEN UNCHANGED << engineOpacity, reads >>
       ELSE IF adShowing
       THEN /\ reads' = Append(reads, [served |-> FALSE])
            /\ engineOpacity' = 0
       ELSE /\ engineOpacity' = savedOpacity
            /\ UNCHANGED reads
    /\ UNCHANGED << adShowing, savedOpacity, storedOpacity, popupUpdates, ads, saves >>
    /\ UNCHANGED notAd

\* line 801: the storage takes the oldest read of onAdStart that it has not served
\* and reads danmakuSettings
StorageServesRead ==
    \E k \in 1..Len(reads) :
      /\ ~reads[k].served
      /\ \A j \in 1..(k - 1) : reads[j].served
      /\ reads' = [reads EXCEPT ![k] = [served |-> TRUE, danmakuSettings |-> storedOpacity]]
      /\ UNCHANGED << adShowing, lastAdStatus, savedOpacity, engineOpacity, storedOpacity,
                      popupUpdates, ads, saves >>
      /\ UNCHANGED notAd

\* lines 801-804: the promise of the read resolves
ReadResolved ==
    /\ reads # <<>>
    /\ Head(reads).served
    /\ savedOpacity' = OrDefaultOpacity(Head(reads).danmakuSettings)
    /\ reads' = Tail(reads)
    /\ UNCHANGED << adShowing, lastAdStatus, engineOpacity, storedOpacity, popupUpdates,
                    ads, saves >>
    /\ UNCHANGED notAd

\* lines 1057-1087: the popup stores the settings and sends them to the tab
PopupSaves(opacity) ==
    /\ saves < MaxSaves
    /\ saves' = saves + 1
    /\ storedOpacity' = <<opacity>>
    /\ popupUpdates' = Append(popupUpdates, opacity)
    /\ UNCHANGED << adShowing, lastAdStatus, savedOpacity, engineOpacity, reads, ads >>
    /\ UNCHANGED notAd

\* lines 821-825: the content script passes the popup's settings to the engine
UpdateSettingsMessage ==
    /\ popupUpdates # <<>>
    /\ engineOpacity' = Head(popupUpdates)
    /\ popupUpdates' = Tail(popupUpdates)
    /\ UNCHANGED << adShowing, lastAdStatus, savedOpacity, storedOpacity, reads, ads,
                    saves >>
    /\ UNCHANGED notAd

NextAd ==
    \/ AdBegins
    \/ AdEnds
    \/ AdCheck
    \/ StorageServesRead
    \/ ReadResolved
    \/ \E opacity \in Opacities : PopupSaves(opacity)
    \/ UpdateSettingsMessage

SpecAd == InitAd /\ [][NextAd]_vars

\* -------------------------------------------------------- removeAdSegments
\* src/services/danmaku-processor.ts, lines 31-125.  Times are whole seconds; a
\* comment is [id, time], a segment [category, segment], segment = << start, end >>;
\* an optional number is << >> (undefined) or << n >>.
MaxSegments == 2
MaxComments == 2

SegmentTimes == 0..3
Categories == {"sponsor", "intro"}

SkipSegments ==
    { [category |-> c, segment |-> <<a, b>>] :
        c \in Categories, a \in SegmentTimes, b \in SegmentTimes }

\* lists of segments with start < end, as the service returns them (in any order)
SegmentLists ==
    UNION { [1..n -> {g \in SkipSegments : g.segment[1] < g.segment[2]}] : n \in 0..MaxSegments }

\* formatDanmakus sorts the comments by time (line 165)
CommentLists ==
    UNION { { [k \in 1..n |-> [id |-> k, time |-> f[k]]] :
                f \in {g \in [1..n -> SegmentTimes] : \A k \in 1..(n - 1) : g[k] <= g[k + 1]} } :
            n \in 0..MaxComments }

\* what fetch() and response.json() can bring (lines 38-57)
SkipResponses ==
    { [kind |-> k] : k \in {"404", "not ok", "fetch rejects", "json rejects"} } \cup
    { [kind |-> "ok", skipSegments |-> l, videoDuration |-> d] :
        l \in SegmentLists, d \in {<<>>, <<0>>, <<10>>, <<20>>} }

YoutubeDurations == {<<>>, <<12>>}

\* Array.prototype.sort((a, b) => a[0] - b[0]) is stable
RECURSIVE InsertByStart(_, _)
InsertByStart(s, g) ==
    IF s = <<>> THEN <<g>>
    ELSE IF g[1] < Head(s)[1] THEN <<g>> \o s
    ELSE <<Head(s)>> \o InsertByStart(Tail(s), g)

RECURSIVE SortByStart(_)
SortByStart(s) ==
    IF s = <<>> THEN <<>>
    ELSE InsertByStart(SortByStart(SubSeq(s, 1, Len(s) - 1)), s[Len(s)])

\* lines 60-63
SponsorSegments(skipSegments) ==
    LET sponsor == SelectSeq(skipSegments, LAMBDA g : g.category = "sponsor")
    IN  SortByStart([k \in 1..Len(sponsor) |-> sponsor[k].segment])

\* `bilibiliVideoDuration && youtubeVideoDuration`: both given and not 0
Truthy(n) == n # <<>> /\ n # <<0>>

\* DurationsClose that never skips the processing
DurationsNeverClose(bilibiliVideoDuration, youtubeDuration) == FALSE

\* lines 69-82: the durations are known and differ by at most 5 s
DurationsClose(bilibiliVideoDuration, youtubeDuration) ==
    /\ Truthy(bilibiliVideoDuration)
    /\ Truthy(youtubeDuration)
    /\ Abs(bilibiliVideoDuration[1] - youtubeDuration[1]) <= 5

\* lines 98-111: one segment is cut out of the comments
CutSegment(ds, adjustedStartTime, adjustedEndTime) ==
    LET filtered == SelectSeq(ds, LAMBDA d : d.time < adjustedStartTime \/ d.time >= adjustedEndTime)
    IN  [k \in 1..Len(filtered) |->
           IF filtered[k].time >= adjustedEndTime
           THEN [filtered[k] EXCEPT !.time = @ - (adjustedEndTime - adjustedStartTime)]
           ELSE filtered[k]]

\* lines 92-115: the loop over the sponsor segments
RECURSIVE ProcessSegments(_, _, _)
ProcessSegments(processedDanmakus, segments, totalRemovedTime) ==
    IF segments = <<>> THEN processedDanmakus
    ELSE LET startTime == Head(segments)[1]
             endTime == Head(segments)[2]
         IN  ProcessSegments(
                 CutSegment(processedDanmakus, startTime - totalRemovedTime,
                            endTime - totalRemovedTime),
                 Tail(segments), totalRemovedTime + (endTime - startTime))

\* lines 37-121: the try block, which returns a list or throws
TryRemove(ds, response, youtubeDuration) ==
    IF response.kind \in {"404", "not ok"} THEN [kind |-> "returned", danmakus |-> ds]
    ELSE IF response.kind \in {"fetch rejects", "json rejects"} THEN [kind |-> "threw"]
    ELSE IF SponsorSegments(response.skipSegments) = <<>>
    THEN [kind |-> "returned", danmakus |-> ds]
    ELSE IF DurationsClose(response.videoDuration, youtubeDuration)
    THEN [kind |-> "returned", danmakus |-> ds]
    ELSE [kind |-> "returned",
          danmakus |-> ProcessSegments(ds, SponsorSegments(response.skipSegments), 0)]

\* lines 31-125: what the promise of removeAdSegments settles to
removeAdSegments(ds, response, youtubeDuration) ==
    LET r == TryRemove(ds, response, youtubeDuration)
    IN  IF r.kind = "threw" THEN [kind |-> "resolved", danmakus |-> ds]
        ELSE [kind |-> "resolved", danmakus |-> r.danmakus]

InitSegments ==
    /\ IdleExceptSegments
    /\ segDanmakus \in CommentLists
    /\ youtubeVideoDuration \in YoutubeDurations
    /\ skipResponse \in SkipResponses
    /\ segResult = [kind |-> "pending"]

RemoveAdSegments ==
    /\ segResult.kind = "pending"
    /\ segResult' = removeAdSegments(segDanmakus, skipResponse, youtubeVideoDuration)
    /\ UNCHANGED << segDanmakus, youtubeVideoDuration, skipResponse >>
    /\ UNCHANGED notSegments

NextSegments == RemoveAdSegments

SpecSegments == InitSegments /\ [][NextSegments]_vars

\* ================================================================ channel associations
\* ChannelAssociationManager.saveChannelAssociation and removeChannelAssociation
\* (src/utils/channelAssociation.ts).  Each call reads the object stored under
\* channelMappings, changes its own copy of it, and writes the copy back; the read
\* and the write are two awaits, so the steps of calls in flight interleave.

MaxCalls == 2

Channels == {"UC1", "UC2"}
UIDs == {"u1", "u2"}

\* a channel without an association has no property in the object
Unmapped == "undefined"

Mappings == [Channels -> UIDs \cup {Unmapped}]

\* result[this.STORAGE_KEY] || {}
NoMappings == [c \in Channels |-> Unmapped]

\* the arguments that pass the test at the head of the function
ArgumentsValid(op, channelId, bilibiliUID) ==
    IF op = "save" THEN channelId # "" /\ bilibiliUID # "" ELSE channelId # ""

\* mappings[channelId] = {...} and delete mappings[channelId]
Updated(mappings, op, channelId, bilibiliUID) ==
    IF op = "save"
    THEN [mappings EXCEPT ![channelId] = bilibiliUID]
    ELSE [mappings EXCEPT ![channelId] = Unmapped]

InitAssociations ==
    /\ IdleExceptAssociations
    /\ channelMappings \in Mappings
    /\ assocCalls = <<>>

\* A call begins: with arguments that fail the test it returns false at once,
\* otherwise it awaits storage.local.get.
CallAssociation(op, channelId, bilibiliUID) ==
    /\ Len(assocCalls) < MaxCalls
    /\ assocCalls' = Append(assocCalls,
           [op |-> op, channelId |-> channelId, bilibiliUID |-> bilibiliUID,
            at |-> IF ArgumentsValid(op, channelId, bilibiliUID) THEN "get" ELSE "returned",
            mappings |-> NoMappings, result |-> FALSE])
    /\ UNCHANGED channelMappings
    /\ UNCHANGED notAssociations

\* storage.local.get settles: the call takes its copy of the stored object and
\* changes it, then awaits storage.local.set; a rejection is caught and the call
\* returns false.
StorageGet(i) ==
    /\ assocCalls[i].at = "get"
    /\ \E ok \in BOOLEAN :
           assocCalls' = [assocCalls EXCEPT ![i] =
               IF ok
               THEN [@ EXCEPT !.at = "set",
                              !.mappings = Updated(channelMappings, assocCalls[i].op,
                                                   assocCalls[i].channelId,
                                                   assocCalls[i].bilibiliUID)]
               ELSE [@ EXCEPT !.at = "returned"]]
    /\ UNCHANGED channelMappings
    /\ UNCHANGED notAssociations

\* storage.local.set settles: the copy replaces the stored object and the call
\* returns true; a rejection is caught and the call returns false.
StorageSet(i) ==
    /\ assocCalls[i].at = "set"
    /\ \E ok \in BOOLEAN :
           /\ channelMappings' = IF ok THEN assocCalls[i].mappings ELSE channelMappings
           /\ assocCalls' = [assocCalls EXCEPT ![i] = [@ EXCEPT !.at = "returned",
                                                                 !.result = ok]]
    /\ UNCHANGED notAssociations

NextAssociations ==
    \/ \E channelId \in Channels \cup {""}, bilibiliUID \in UIDs \cup {""} :
           CallAssociation("save", channelId, bilibiliUID)
    \/ \E channelId \in Channels \cup {""} : CallAssociation("remove", channelId, "")
    \/ \E i \in 1..Len(assocCalls) : StorageGet(i)
    \/ \E i \in 1..Len(assocCalls) : StorageSet(i)

SpecAssociations == InitAssociations /\ [][NextAssociations]_vars

\* ================================================================ CacheManager
\* CacheManager (src/utils/cache-manager.ts): a Map from keys to entries with a time
\* of expiry, and accessOrder, the keys from the least to the most recently used.
\* The entries' data and timestamp take no part in what the methods keep or evict
\* and are left out.

MaxSize == 2
MaxOps == 4
MaxNow == 2

\* the keys passed to the methods; the empty string is a string like any other
Keys == {"", "a", "b", "c"}

\* options.ttl, in units of the clock
DefaultTtl == 2

\* customTtl: absent, 0 or 1
CustomTtls == {<<>>, <<0>>, <<1>>}

\* customTtl || this.ttl
TtlOf(customTtl) ==
    IF customTtl = <<>> \/ customTtl = <<0>> THEN DefaultTtl ELSE customTtl[1]

\* the keys of the Map
CachedKeys == {e.key : e \in cache}

\* accessOrder.filter((k) => k !== key)
WithoutKey(order, key) == SelectSeq(order, LAMBDA k : k # key)

\* the test that guards cache.delete(oldestKey): an empty string is falsy
KeyTruthy(key) == key # ""

\* the entries whose time of expiry has passed
Expired == {e \in cache : cacheNow > e.expiresAt}

InitCache ==
    /\ IdleExceptCache
    /\ cache = {}
    /\ accessOrder = <<>>
    /\ cacheNow = 0
    /\ usedAt = [k \in Keys |-> 0]
    /\ cacheOps = 0
    /\ cacheLast = [op |-> "none", key |-> ""]

\* what every call of a method does to the bookkeeping
Called(op, key) ==
    /\ cacheOps < MaxOps
    /\ cacheOps' = cacheOps + 1
    /\ cacheLast' = [op |-> op, key |-> key]

\* set(key, data, customTtl)
CacheSet(key, customTtl) ==
    /\ Called("set", key)
    /\ LET filtered == IF key \in CachedKeys THEN WithoutKey(accessOrder, key)
                       ELSE accessOrder
           entries == {e \in cache : e.key # key}
                          \cup {[key |-> key, expiresAt |-> cacheNow + TtlOf(customTtl)]}
           pushed == Append(filtered, key)
       IN  IF Cardinality(entries) > MaxSize
           THEN \* accessOrder.shift()
                /\ accessOrder' = Tail(pushed)
                /\ cache' = IF KeyTruthy(Head(pushed))
                            THEN {e \in entries : e.key # Head(pushed)}
                            ELSE entries
           ELSE /\ accessOrder' = pushed
                /\ cache' = entries
    /\ usedAt' = [usedAt EXCEPT ![key] = cacheOps + 1]
    /\ UNCHANGED cacheNow
    /\ UNCHANGED notCache

\* get(key): null for a key that is absent, an expired entry is deleted, and any
\* other entry becomes the most recently used one
CacheGet(key) ==
    /\ Called("get", key)
    /\ IF key \notin CachedKeys
       THEN UNCHANGED << cache, accessOrder, usedAt >>
       ELSE IF \E e \in Expired : e.key = key
            THEN /\ cache' = {e \in cache : e.key # key}
                 /\ accessOrder' = WithoutKey(accessOrder, key)
                 /\ UNCHANGED usedAt
            ELSE /\ accessOrder' = Append(WithoutKey(accessOrder, key), key)
                 /\ usedAt' = [usedAt EXCEPT ![key] = cacheOps + 1]
                 /\ UNCHANGED cache
    /\ UNCHANGED cacheNow
    /\ UNCHANGED notCache

\* delete(key)
CacheDelete(key) ==
    /\ Called("delete", key)
    /\ cache' = {e \in cache : e.key # key}
    /\ accessOrder' = WithoutKey(accessOrder, key)
    /\ UNCHANGED << cacheNow, usedAt >>
    /\ UNCHANGED notCache

\* clear()
CacheClear ==
    /\ Called("clear", "")
    /\ cache' = {}
    /\ accessOrder' = <<>>
    /\ UNCHANGED << cacheNow, usedAt >>
    /\ UNCHANGED notCache

\* cleanup(): delete(key) for every entry that has expired
CacheCleanup ==
    /\ Called("cleanup", "")
    /\ cache' = cache \ Expired
    /\ accessOrder' = SelectSeq(accessOrder, LAMBDA k : \A e \in Expired : e.key # k)
    /\ UNCHANGED << cacheNow, usedAt >>
    /\ UNCHANGED notCache

\* Date.now() moves on between two calls.
ClockTick ==
    /\ cacheNow < MaxNow
    /\ cacheNow' = cacheNow + 1
    /\ UNCHANGED << cache, accessOrder, usedAt, cacheOps, cacheLast >>
    /\ UNCHANGED notCache

NextCache ==
    \/ \E key \in Keys, customTtl \in CustomTtls : CacheSet(key, customTtl)
    \/ \E key \in Keys : CacheGet(key)
    \/ \E key \in Keys : CacheDelete(key)
    \/ CacheClear
    \/ CacheCleanup
    \/ ClockTick

SpecCache == InitCache /\ [][NextCache]_vars

\* ================================================================ getChannelInfo
\* getChannelInfo (src/unnamed/part_003): an attempt reads the channel's name, ID and
\* avatar off the page; when the name or the ID is missing it sets a timer and
\* tries again, at most twice.  The page is described by what the selectors match:
\* the elements matched by nameSelectors, in the order of the selectors, each with
\* its trimmed text and its href; the hrefs of the anchors matched by
\* 'a[href*="/@"], a[href*="/channel/"]'; and whether an avatar image with a src
\* is there.

MaxNameElements == 2
MaxAnchors == 1

\* the delay of the first retry, in ms
RetryDelay == 500

\* the number of retries
MaxRetries == 2

\* element.textContent.trim(): empty, or one of two names
Texts == {"", "N1", "N2"}

\* an href: none, one with /@user, one with /channel/UC1, one that matches neither
\* pattern
NameHrefs == {"", "handle", "channel"}
AnchorHrefs == {"handle", "channel", "other"}

NameElements == [text : Texts, href : NameHrefs]

\* href.match(/@([^\/\?#]+)/) first, href.match(/channel\/([^\/\?#]+)/) second:
\* the channel ID an href gives, "" when there is none
IdOfHref(href) ==
    IF href = "handle" THEN "@user"
    ELSE IF href = "channel" THEN "UC1"
    ELSE ""

\* for (const selector of nameSelectors): the name and the ID after the elements
\* els, when name and id are what the elements before them gave
RECURSIVE ScanNameElements(_, _, _)
ScanNameElements(els, name, id) ==
    IF els = <<>> THEN [channelName |-> name, channelId |-> id]
    ELSE LET element == Head(els)
             newId == IF IdOfHref(element.href) # "" THEN IdOfHref(element.href) ELSE id
         IN  IF element.text = "" THEN ScanNameElements(Tail(els), name, id)
             ELSE IF newId # "" THEN [channelName |-> element.text, channelId |-> newId]
             ELSE ScanNameElements(Tail(els), element.text, newId)

\* for (const element of channelElements): the ID of the first anchor that has one
RECURSIVE ScanAnchors(_)
ScanAnchors(hrefs) ==
    IF hrefs = <<>> THEN ""
    ELSE IF IdOfHref(Head(hrefs)) # "" THEN IdOfHref(Head(hrefs))
    ELSE ScanAnchors(Tail(hrefs))

\* what one attempt reads off the page
ReadPage ==
    LET named == ScanNameElements(nameElements, "", "")
    IN  [channelName |-> named.channelName,
         channelId |-> IF named.channelId = "" THEN ScanAnchors(anchors)
                       ELSE named.channelId,
         channelAvatar |-> IF avatarSrc THEN "src" ELSE ""]

\* the test of line 265 with one more retry allowed
ShouldRetryUpTo3(channelId, channelName, retryCount) ==
    (channelId = "" \/ channelName = "") /\ retryCount < MaxRetries + 1

\* (!channelId || !channelName) && retryCount < 2
ShouldRetry(channelId, channelName, retryCount) ==
    (channelId = "" \/ channelName = "") /\ retryCount < MaxRetries

\* the ChannelInfo of an attempt that ran to its end, and the one of the catch
ChannelInfoOf(read) ==
    [channelId |-> read.channelId, channelName |-> read.channelName,
     channelAvatar |-> read.channelAvatar,
     success |-> read.channelId # "" /\ read.channelName # ""]

CaughtChannelInfo ==
    [channelId |-> "", channelName |-> "", channelAvatar |-> "", success |-> FALSE]

NotCalled ==
    [at |-> "not called", retryCount |-> 0, attempts |-> 0, delays |-> <<>>,
     thrown |-> FALSE, result |-> CaughtChannelInfo]

InitChannel ==
    /\ IdleExceptChannel
    /\ nameElements = <<>>
    /\ anchors = <<>>
    /\ avatarSrc = FALSE
    /\ channelCall = NotCalled

\* The body of getChannelInfo(retryCount): the try block either throws, and the
\* catch returns the empty ChannelInfo, or reads the page and then retries after
\* 500 * (retryCount + 1) ms or returns what it read.
Attempt(retryCount) ==
    \E thrown \in BOOLEAN :
        channelCall' =
            IF thrown
            THEN [channelCall EXCEPT !.at = "resolved", !.retryCount = retryCount,
                                     !.attempts = @ + 1, !.thrown = TRUE,
                                     !.result = CaughtChannelInfo]
            ELSE IF ShouldRetry(ReadPage.channelId, ReadPage.channelName, retryCount)
            THEN [channelCall EXCEPT !.at = "timer", !.retryCount = retryCount,
                                     !.attempts = @ + 1,
                                     !.delays = Append(@, RetryDelay * (retryCount + 1))]
            ELSE [channelCall EXCEPT !.at = "resolved", !.retryCount = retryCount,
                                     !.attempts = @ + 1,
                                     !.result = ChannelInfoOf(ReadPage)]

\* getChannelInfo() is called.
getChannelInfo ==
    /\ channelCall.at = "not called"
    /\ Attempt(0)
    /\ UNCHANGED << nameElements, anchors, avatarSrc >>
    /\ UNCHANGED notChannel

\* The timer of a retry fires: resolve(getChannelInfo(retryCount + 1)).
RetryTimer ==
    /\ channelCall.at = "timer"
    /\ Attempt(channelCall.retryCount + 1)
    /\ UNCHANGED << nameElements, anchors, avatarSrc >>
    /\ UNCHANGED notChannel

\* The page is rendered while the call has not resolved: elements appear and go.
NameElementAppears(element) ==
    /\ channelCall.at # "resolved"
    /\ Len(nameElements) < MaxNameElements
    /\ nameElements' = Append(nameElements, element)
    /\ UNCHANGED << anchors, avatarSrc, channelCall >>
    /\ UNCHANGED notChannel

NameElementGoes(i) ==
    /\ channelCall.at # "resolved"
    /\ nameElements' = [k \in 1..(Len(nameElements) - 1) |->
                           IF k < i THEN nameElements[k] ELSE nameElements[k + 1]]
    /\ UNCHANGED << anchors, avatarSrc, channelCall >>
    /\ UNCHANGED notChannel

AnchorAppears(href) ==
    /\ channelCall.at # "resolved"
    /\ Len(anchors) < MaxAnchors
    /\ anchors' = Append(anchors, href)
    /\ UNCHANGED << nameElements, avatarSrc, channelCall >>
    /\ UNCHANGED notChannel

AnchorGoes(i) ==
    /\ channelCall.at # "resolved"
    /\ anchors' = [k \in 1..(Len(anchors) - 1) |->
                      IF k < i THEN anchors[k] ELSE anchors[k + 1]]
    /\ UNCHANGED << nameElements, avatarSrc, channelCall >>
    /\ UNCHANGED notChannel

AvatarChanges ==
    /\ channelCall.at # "resolved"
    /\ avatarSrc' = ~avatarSrc
    /\ UNCHANGED << nameElements, anchors, channelCall >>
    /\ UNCHANGED notChannel

NextChannel ==
    \/ getChannelInfo
    \/ RetryTimer
    \/ \E element \in NameElements : NameElementAppears(element)
    \/ \E i \in 1..Len(nameElements) : NameElementGoes(i)
    \/ \E href \in AnchorHrefs : AnchorAppears(href)
    \/ \E i \in 1..Len(anchors) : AnchorGoes(i)
    \/ AvatarChanges

\* a timer that has been set fires
SpecChannel == InitChannel /\ [][NextChannel]_vars /\ WF_vars(RetryTimer)

\* ================================================================ claims
Comments == 1..Len(danmakus)
ItemComments(trs) == {AllItems(trs)[k].danmaku : k \in 1..Len(AllItems(trs))}
Emitted(ds) == {i \in 1..Len(ds) : ds[i].emitted}
Clamp(x, lo, hi) == Max(lo, Min(x, hi))

\* The progress the video's time gives an item:
\* (video.currentTime + timeOffset - comment.time) / playbackRate, in [0, duration].
ProgressFromVideo(it) ==
    Clamp((AdjustedTime - danmakus[it.danmaku].time) \div vRate, 0, it.dur)

\* C1: in every reachable state, every in-flight item's animation progress equals
\* (video.currentTime + timeOffset - comment.time) / playbackRate clamped to
\* [0, duration], whether emit() or emitWithProgress() created it.
C1_ProgressFollowsVideo == \A it \in ItemSet : it.cur = ProgressFromVideo(it)

\* The time a seek departs from: the pause time while the video is paused, else
\* the position playback had reached.
TrueSeekReference == IF vPaused THEN pauseTime ELSE vTime

\* C2: a seeking event whose new time is within 0.5 s of the reference time removes
\* no item, resets no emitted flag and leaves the engine started.
C2_MinorSeekIgnored ==
    [][(last'.op = "seeking" /\ Abs(vTime' - TrueSeekReference) <= seekingThreshold)
        => (tracks' = tracks /\ danmakus' = danmakus /\ isStarted' = isStarted)]_vars

\* C3: a seeking event whose new time is more than 0.5 s from the reference time
\* removes every in-flight item and sets emitted = false on every comment.
C3_RealSeekClears ==
    [][(last'.op = "seeking" /\ Abs(vTime' - TrueSeekReference) > seekingThreshold)
        => (AllItems(tracks') = <<>> /\ Emitted(danmakus') = {})]_vars

\* C4: once a seeking event has cleared the overlay, the next seeked event resyncs
\* and leaves the enabled engine started with its loop scheduled if the video is
\* playing, and not started if it is paused, however many seeking events came
\* in between.
C4_SeekedResyncs ==
    [][(last'.op = "seeked" /\ flushed /\ settings.enabled)
        => /\ last'.ran
           /\ ~vPaused => (isStarted' /\ loopFrames' > 0)
           /\ vPaused => ~isStarted']_vars

\* C6: a ratechange event moves no in-flight item: each item's animation progress
\* is the same (within 1 ms) right after handleSpeedChange as right before.
C6_RateChangeContinuous ==
    [][last'.op = "ratechange"
        => /\ Len(AllItems(tracks')) = Len(AllItems(tracks))
           /\ \A k \in 1..Len(AllItems(tracks)) :
                Abs(AllItems(tracks')[k].cur - AllItems(tracks)[k].cur) <= 1]_vars

\* The comments a resync at adjusted time T must re-spawn according to the claim:
\* time <= T and T - time <= 8.0 s.
InSeekWindow(d) == d.time <= AdjustedTime /\ AdjustedTime - d.time <= ResyncWindowPast

NoTwoItemsOfOneComment(trs) ==
    \A j, k \in 1..Len(AllItems(trs)) :
        AllItems(trs)[j].danmaku = AllItems(trs)[k].danmaku => j = k

\* C5 as stated: after the resync of a genuine seek ending at T, there is exactly
\* one item for each comment with time <= T and T - time <= 8.0 s and for no
\* other comment, each at elapsed offset T - time, and exactly those comments
\* have emitted = true.
C5_ResyncExactWindow ==
    (last.op = "seeked" /\ last.ran) =>
        LET window == {i \in Comments : InSeekWindow(danmakus[i])}
        IN  /\ ItemComments(tracks) = window
            /\ NoTwoItemsOfOneComment(tracks)
            /\ \A it \in ItemSet : it.cur = ProgressFromVideo(it)
            /\ Emitted(danmakus) = window

\* C5 amended: the comments concerned are those in the window that pass the
\* weight filter; exactly those have emitted = true; every item is for one of
\* them, at most one each, at elapsed offset T - time; and with at least one
\* track there is one item for each of them.
C5_ResyncWeightedWindow ==
    (last.op = "seeked" /\ last.ran) =>
        LET window == {i \in Comments :
                         InSeekWindow(danmakus[i]) /\ PassesWeight(danmakus[i], settings)}
        IN  /\ ItemComments(tracks) \subseteq window
            /\ Len(tracks) > 0 => ItemComments(tracks) = window
            /\ NoTwoItemsOfOneComment(tracks)
            /\ \A it \in ItemSet : it.cur = ProgressFromVideo(it)
            /\ Emitted(danmakus) = window

\* C5 witness: a resync has re-spawned a comment and left out one that is in the
\* time window but under the weight threshold.
C5_Witness ==
    /\ last.op = "seeked" /\ last.ran
    /\ ItemSet # {}
    /\ \E it \in ItemSet : it.cur > 0
    /\ \E i \in Comments :
          InSeekWindow(danmakus[i]) /\ ~PassesWeight(danmakus[i], settings)

\* The steps in which resync or a load resets the emitted flags.
ResetOps == {"seeking", "seeked", "loadDanmakus", "loadTimer", "rebuild"}

\* C7: no two in-flight items refer to the same comment, and a step that is not a
\* reset creates items only for comments whose emitted flag was false, one each,
\* and sets the flag.
C7_OneItemPerComment ==
    /\ [](NoTwoItemsOfOneComment(tracks))
    /\ [][last'.op \notin ResetOps =>
            /\ \A i \in Range(last'.created) : ~danmakus[i].emitted /\ danmakus'[i].emitted
            /\ \A j, k \in 1..Len(last'.created) :
                 last'.created[j] = last'.created[k] => j = k]_vars

\* C7 witness: an emission pass has run while a comment emitted earlier is still
\* in the pass's time window, and two items are in flight.
C7_Witness ==
    /\ last.op = "emitLoop" /\ last.ran
    /\ Len(AllItems(tracks)) >= 2
    /\ \E i \in Emitted(danmakus) \ Range(last.created) :
          /\ danmakus[i].time - AdjustedTime >= 0 - EmitWindowPast
          /\ danmakus[i].time - AdjustedTime <= EmitWindowAhead

\* A comment is in the emission window of adjusted time T: -0.5 s <= time - T <= 1.0 s.
InEmitWindow(d) ==
    d.time - AdjustedTime >= 0 - EmitWindowPast /\ d.time - AdjustedTime <= EmitWindowAhead

\* The comments due at the start of a pass: not emitted, in the window, passing
\* the weight filter.
DueSet ==
    {i \in Comments : /\ ~danmakus[i].emitted
                      /\ InEmitWindow(danmakus[i])
                      /\ (settings.weightThreshold > 0
                            => WeightOf(danmakus[i]) >= settings.weightThreshold)}

\* C8: a pass with n due comments sets emitted on exactly min(n, 10) of them, none
\* later than a due comment it leaves, and on no other comment; it calls emit() for
\* them in ascending time order; the due comments it leaves keep emitted = false.
C8_EmissionCap ==
    [][(last'.op = "emitLoop" /\ last'.ran) =>
        LET new == Emitted(danmakus') \ Emitted(danmakus)
        IN  /\ new \subseteq DueSet
            /\ Emitted(danmakus) \subseteq Emitted(danmakus')
            /\ Cardinality(new) = Min(Cardinality(DueSet), MaxEmitPerPass)
            /\ \A i \in new : \A j \in DueSet \ new : danmakus[i].time <= danmakus[j].time
            /\ Len(tracks) > 0 => Range(last'.created) = new
            /\ \A j, k \in 1..Len(last'.created) :
                 j < k => danmakus[last'.created[j]].time <= danmakus[last'.created[k]].time]_vars

\* C8 witness: a pass has emitted ten comments and left a due one for a later pass.
C8_Witness ==
    /\ last.op = "emitLoop" /\ last.ran
    /\ Len(last.created) = MaxEmitPerPass
    /\ \E i \in Comments : ~danmakus[i].emitted /\ InEmitWindow(danmakus[i])

\* C9: a pass emits only comments that were not emitted and whose time is within
\* [-0.5 s, +1.0 s] of the adjusted video time, whatever gap preceded the pass.
C9_EmissionWindow ==
    [][last'.op = "emitLoop" =>
        \A i \in Range(last'.created) \cup (Emitted(danmakus') \ Emitted(danmakus)) :
            ~danmakus[i].emitted /\ InEmitWindow(danmakus[i])]_vars

\* C9 witness: a pass after a gap has emitted a comment and skipped one that is
\* more than 0.5 s in the past.
C9_Witness ==
    /\ last.op = "emitLoop" /\ last.ran
    /\ last.created # <<>>
    /\ \E i \in Comments :
          ~danmakus[i].emitted /\ danmakus[i].time - AdjustedTime < 0 - EmitWindowPast

\* C10: with weightThreshold > 0 no step creates an item for a comment whose weight
\* (5 when it has none) is under the threshold; with weightThreshold = 0 a pass
\* emits every due comment (up to its cap) and a resync every comment in its
\* window, whatever their weights.
C10_WeightFilter ==
    [][/\ \A i \in Range(last'.created) :
            settings.weightThreshold > 0 =>
                (IF "weight" \in DOMAIN danmakus[i] THEN danmakus[i].weight ELSE 5)
                    >= settings.weightThreshold
       /\ (settings.weightThreshold = 0 /\ last'.op = "emitLoop" /\ last'.ran) =>
            LET open == {i \in Comments : ~danmakus[i].emitted /\ InEmitWindow(danmakus[i])}
            IN  Cardinality(open) <= MaxEmitPerPass => open \subseteq Emitted(danmakus')
       /\ (settings.weightThreshold = 0 /\ last'.op \in {"seeked", "loadTimer", "rebuild"}
             /\ last'.ran) =>
            {i \in Comments : InSeekWindow(danmakus[i])} \subseteq Emitted(danmakus')]_vars

\* C10 witness: with a threshold in force, a step has created an item while a
\* comment under the threshold is inside the emission window and stays unemitted.
C10_Witness ==
    /\ settings.weightThreshold > 0
    /\ last.created # <<>>
    /\ \E i \in Comments :
          /\ WeightOf(danmakus[i]) < settings.weightThreshold
          /\ InEmitWindow(danmakus[i])
          /\ ~danmakus[i].emitted

\* C10 second case reached: with threshold 0 a pass has emitted a comment of
\* weight under 5.
C10_WitnessShowAll ==
    /\ settings.weightThreshold = 0
    /\ \E i \in Range(last.created) : WeightOf(danmakus[i]) < DefaultWeight

\* The right edge an item is rendered at, given its animation's progress, is
\* within the collision buffer of the stage's right edge:
\* stageWidth - (cur / dur) * (stageWidth + width) + width > stageWidth - 100.
RightEdgeInBuffer(it) ==
    (ItemWidth + CollisionBuffer) * it.dur > it.cur * (StageWidth + ItemWidth)

\* C11: when findAvailableTrack returns a track it judged available, no item on
\* that track has its rendered right edge within the 100 px buffer of the stage's
\* right edge.
C11_NoCollisionAtSpawn ==
    [][\A k \in 1..Len(last'.spawns) :
          last'.spawns[k].judged =>
              \A j \in 1..Len(last'.spawns[k].residents) :
                  ~RightEdgeInBuffer(last'.spawns[k].residents[j])]_vars

\* C12: with at least one track, a pass creates an item for every comment it marks
\* emitted, on one of the existing tracks, whether or not a track was free.
C12_NoDropWhenOccupied ==
    [][(last'.op = "emitLoop" /\ Len(tracks) > 0) =>
        LET new == Emitted(danmakus') \ Emitted(danmakus)
        IN  /\ Range(last'.created) = new
            /\ Len(last'.created) = Len(last'.spawns)
            /\ \A k \in 1..Len(last'.spawns) : last'.spawns[k].track \in 1..Len(tracks)
            /\ \A i \in new : \E it \in Range(AllItems(tracks')) : it.danmaku = i]_vars

\* C12 witness: a pass has put an item on a track that was drawn at random because
\* every track was occupied, and the item is in flight.
C12_Witness ==
    /\ last.op = "emitLoop"
    /\ \E k \in 1..Len(last.spawns) :
          /\ ~last.spawns[k].judged
          /\ \E it \in Range(tracks[last.spawns[k].track].items) :
                it.danmaku = last.created[k]
    /\ \A t \in 1..Len(tracks) : tracks[t].items # <<>>

\* C13: right after destroy() returns there is no in-flight item and no pending
\* callback of the engine: no refresh-loop frame, no loadDanmakus timer, no rebuild
\* frame and no fullscreen timer.
C13_DestroyLeavesNothing ==
    [][last'.op = "destroy" =>
        /\ AllItems(tracks') = <<>>
        /\ loopFrames' = 0
        /\ loadTimers' = 0
        /\ rebuildFrames' = 0
        /\ fullscreenTimers' = 0]_vars

\* C14: once destroy() has returned, no step creates an item, sets isStarted or
\* schedules a refresh-loop callback.
C14_DestroyIsTerminal ==
    [][destroyed =>
        /\ last'.created = <<>>
        /\ ~isStarted'
        /\ loopFrames' <= loopFrames]_vars

\* C15: whenever the video is paused, no in-flight item's animation is running and
\* no step of the refresh loop creates an item, including for items a seek
\* performed during the pause has re-spawned.
C15_PausedIsFrozen ==
    /\ [](vPaused => \A it \in ItemSet : it.playState # "running")
    /\ [][(vPaused /\ last'.op = "emitLoop") => last'.created = <<>>]_vars

\* One item is the other but for its animation's play state.
SameButPlayState(a, b) == [a EXCEPT !.playState = b.playState] = b

\* The tracks hold the same items at the same places, each with the same progress,
\* and the play state of each is changed from one state to another or kept.
Froze(trs, new, from, to) ==
    /\ Len(new) = Len(trs)
    /\ \A t \in 1..Len(trs) :
          /\ new[t].top = trs[t].top
          /\ Len(new[t].items) = Len(trs[t].items)
          /\ \A k \in 1..Len(trs[t].items) :
                /\ SameButPlayState(trs[t].items[k], new[t].items[k])
                /\ new[t].items[k].playState =
                      IF trs[t].items[k].playState = from THEN to
                      ELSE trs[t].items[k].playState

\* C16: a pause event removes no item and freezes every running animation at its
\* progress; while the video stays paused, time and refresh frames change no paused
\* item and remove none; a play event on the enabled engine resumes every paused
\* animation from its progress, keeps every item on its track, and leaves the
\* engine started with its loop scheduled.
C16_PausePlayRoundTrip ==
    /\ [][last'.op = "pause" => Froze(tracks, tracks', "running", "paused")]_vars
    /\ [][(vPaused /\ last'.op \in {"advance", "emitLoop"}) =>
            /\ Len(AllItems(tracks')) = Len(AllItems(tracks))
            /\ \A k \in 1..Len(AllItems(tracks)) :
                  AllItems(tracks)[k].playState = "paused" =>
                      AllItems(tracks')[k] = AllItems(tracks)[k]]_vars
    /\ [][(last'.op = "play" /\ settings.enabled) =>
            /\ Froze(tracks, tracks', "paused", "running")
            /\ isStarted'
            /\ loopFrames' > 0]_vars

\* C16 witness: a play event has resumed an animation that a pause event had frozen
\* part of the way, next to the item it shares the overlay with.
C16_Witness ==
    /\ last.op = "play" /\ last.ran
    /\ pauseTime > 0
    /\ Len(AllItems(tracks)) >= 2
    /\ \E it \in ItemSet : it.playState = "running" /\ it.cur > 0 /\ it.cur < it.dur

\* C17: loadDanmakus(list) replaces the comments by the list, sorted, with every
\* emitted flag false, and removes every in-flight item; when its timer has
\* resynced on a playing video with the engine enabled, the refresh frame that
\* follows runs an emission pass, whatever isStarted was before the call.
C17_LoadBeginsSync ==
    /\ [][last'.op = "loadDanmakus" =>
            /\ AllItems(tracks') = <<>>
            /\ Emitted(danmakus') = {}
            /\ \E list \in env.lists :
                  /\ Len(danmakus') = Len(list)
                  /\ \A i \in 1..Len(list) :
                        Cardinality({k \in 1..Len(list) : list[k].time = list[i].time})
                          = Cardinality({k \in 1..Len(list) :
                                            danmakus'[k].time = list[i].time})]_vars
    /\ [][(last.op = "loadTimer" /\ last.ran /\ ~vPaused /\ last'.op = "emitLoop")
            => last'.ran]_vars

\* C18: the rebuild that follows a change of weightThreshold on the enabled engine
\* leaves, with at least one track, exactly one item for each comment of the 8 s
\* backward window that passes the threshold, and emitted = true on exactly those
\* comments, whether the video is playing or paused.
C18_ThresholdChangeRebuilds ==
    [][(last'.op = "rebuild" /\ settings.enabled /\ Len(tracks) > 0) =>
        LET window == {i \in Comments :
                         InSeekWindow(danmakus[i]) /\ PassesWeight(danmakus[i], settings)}
        IN  /\ ItemComments(tracks') = window
            /\ NoTwoItemsOfOneComment(tracks')
            /\ Emitted(danmakus') = window]_vars

\* C19: while settings.enabled is false no track holds an item and isStarted is
\* false; no refresh frame then runs an emission pass or a cleanup, and no step
\* creates an item; an updateSettings that enables the engine again without asking
\* for a rebuild, on a playing video, leaves it started with its loop scheduled.
C19_DisabledIsInert ==
    /\ [](~settings.enabled => (AllItems(tracks) = <<>> /\ ~isStarted))
    /\ [][~settings'.enabled =>
            /\ last'.created = <<>>
            /\ last'.op = "emitLoop" =>
                 (~last'.ran /\ tracks' = tracks /\ danmakus' = danmakus)]_vars
    /\ [][(last'.op = "updateSettings" /\ ~settings.enabled /\ settings'.enabled
             /\ ~last'.ran /\ ~vPaused)
            => (isStarted' /\ loopFrames' > 0)]_vars

\* C19 witness: on the disabled engine, with comments loaded, a play event, a
\* completed seek or the loadDanmakus timer has just run.
C19_Witness ==
    /\ ~settings.enabled
    /\ danmakus # <<>>
    /\ last.op \in {"play", "seeked", "loadTimer"}

\* C20: while the overlay has no track, an emission pass or a resync creates no
\* item and changes no comment's emitted flag.
C20_NoTrackNoEffect ==
    [][(Len(tracks) = 0 /\ last'.op \in {"emitLoop", "seeked", "loadTimer", "rebuild"}) =>
        /\ last'.created = <<>>
        /\ AllItems(tracks') = <<>>
        /\ Emitted(danmakus') = Emitted(danmakus)]_vars

\* C21: whenever a step detaches an item's element from the stage, the item's
\* animation is not active any more (it has been cancelled, or it had finished).
C21_CancelBeforeDetach ==
    [][\A k \in 1..Len(last'.removed) :
          last'.removed[k].playState \notin {"running", "paused"}]_vars

\* The steps that recompute the tracks and do nothing else to the items.
IsRecomputation(l, s) ==
    l.op \in {"resize", "fullscreenTimer"} \/ (l.op = "updateSettings" /\ s.enabled)

\* The comments whose items are on track t (counted from 1).
OnTrack(trs, t) == {trs[t].items[k].danmaku : k \in 1..Len(trs[t].items)}

\* C22: a track recomputation keeps every in-flight item whose pixel offset maps to
\* a track index below the new track count, on exactly the track of that index,
\* removes exactly the other items, and adds none.
C22_RecomputationKeepsItems ==
    [][IsRecomputation(last', settings') =>
        LET th == settings'.fontSize + settings'.trackSpacing
        IN  /\ ItemComments(tracks') \subseteq ItemComments(tracks)
            /\ NoTwoItemsOfOneComment(tracks')
            /\ \A it \in ItemSet :
                  IF it.top \div th < Len(tracks')
                  THEN /\ it.danmaku \in OnTrack(tracks', it.top \div th + 1)
                       /\ it.danmaku \in stage'
                  ELSE /\ it.danmaku \notin ItemComments(tracks')
                       /\ it.danmaku \notin stage']_vars

\* C22 witness: a recomputation has removed an item that fell outside the new
\* track count and kept another one in flight.
C22_Witness ==
    /\ IsRecomputation(last, settings)
    /\ last.removed # <<>>
    /\ ItemSet # {}

\* C23: when updateSettings changes speed on the enabled engine, every in-flight
\* item stays in flight, its animation's duration becomes baseDuration / newSpeed
\* and its progress fraction currentTime / duration is the same after the call as
\* before it (to the millisecond).
C23_SpeedChangeKeepsFraction ==
    [][(last'.op = "updateSettings" /\ settings'.speed # settings.speed /\ settings'.enabled)
        => /\ Len(AllItems(tracks')) = Len(AllItems(tracks))
           /\ \A k \in 1..Len(AllItems(tracks)) :
                LET old == AllItems(tracks)[k]
                    new == AllItems(tracks')[k]
                IN  /\ new.danmaku = old.danmaku
                    /\ new.dur * settings'.speed = baseDuration
                    /\ old.cur * new.dur - new.cur * old.dur >= 0
                    /\ old.cur * new.dur - new.cur * old.dur < old.dur]_vars

\* C23 witness: after one loadDanmakus, the only other call, updateSettings with a
\* new speed, has rescaled an item that was part of the way across the stage.
C23_Witness ==
    /\ last.op = "updateSettings"
    /\ inputs = 2 /\ danmakus # <<>>
    /\ settings.speed = 2
    /\ \E it \in ItemSet : it.dur * 2 = baseDuration /\ it.cur > 0 /\ it.cur < it.dur

\* C24: in every reachable state no item is held twice by the tracks, and the
\* elements attached to the stage are exactly the elements of the items the
\* tracks hold.
C24_ItemsOwnedByTracks ==
    /\ NoTwoItemsOfOneComment(tracks)
    /\ stage = ItemComments(tracks)

\* C24 witness: a step has taken an element off the stage and left another item
\* in flight.
C24_Witness ==
    /\ last.removed # <<>>
    /\ stage # {}
    /\ DetachedIds(last.removed) \cap stage = {}

\* C25: an updateSettings call that changes only opacity leaves the tracks with
\* their items (which items, on which track, in which order, at which progress),
\* the elements on the stage and every comment's emitted flag as they were.
C25_OpacityOnlyIsVisual ==
    [][(/\ last'.op = "updateSettings"
        /\ settings'.opacity # settings.opacity
        /\ settings' = [settings EXCEPT !.opacity = settings'.opacity])
        => /\ tracks' = tracks
           /\ stage' = stage
           /\ danmakus' = danmakus
           /\ last'.removed = <<>> /\ last'.created = <<>>]_vars

\* C25 witness: after one loadDanmakus, the only other call, updateSettings with a
\* new opacity, has run with items in flight on a started engine.
C25_Witness ==
    /\ last.op = "updateSettings"
    /\ inputs = 2 /\ danmakus # <<>>
    /\ settings.opacity = 0
    /\ ItemSet # {}
    /\ isStarted

\* A comment as it was loaded: without the engine's emitted flag.
AsLoaded(d) == [k \in DOMAIN d \ {"emitted"} |-> d[k]]

\* The two sequences hold the same comments, each as many times.
SameComments(ds, list) ==
    /\ Len(ds) = Len(list)
    /\ \A i \in 1..Len(list) :
          Cardinality({k \in 1..Len(ds) : AsLoaded(ds[k]) = list[i]})
            = Cardinality({k \in 1..Len(list) : list[k] = list[i]})

\* C26: the stored comment list is always sorted ascending by time; loadDanmakus
\* stores exactly the comments of the list it is given; and no other step changes
\* which comments are stored, their order or their times.
C26_CommentsSorted ==
    /\ [](\A i, j \in 1..Len(danmakus) : i < j => danmakus[i].time <= danmakus[j].time)
    /\ [][last'.op = "loadDanmakus" =>
            \E list \in env.lists : SameComments(danmakus', list)]_vars
    /\ [][last'.op # "loadDanmakus" =>
            /\ Len(danmakus') = Len(danmakus)
            /\ \A i \in 1..Len(danmakus) : AsLoaded(danmakus'[i]) = AsLoaded(danmakus[i])]_vars

\* C26 witness: the unsorted list has been loaded, is stored with the comment of
\* time 0.5 s first, and a later step has emitted one of its comments.
C26_Witness ==
    /\ SameComments(danmakus, ListA)
    /\ ListA[1].time > ListA[2].time
    /\ danmakus[1].time < danmakus[2].time
    /\ last.op # "loadDanmakus"
    /\ Emitted(danmakus) # {}

EngineState ==
    << danmakus, tracks, stage, settings, isStarted, lastVideoTime, isRealSeeking,
       pauseTime, emittingFrameId, emitDue, cleanupDue, loopFrames, loadTimers,
       rebuildFrames, fullscreenTimers, destroyed >>

\* C28: a destroy() call on the destroyed engine leaves it with no item, no element
\* on the stage, no scheduled frame and not started, as the first call did; and a
\* second call right after the first changes nothing of the engine's state.
C28_DestroyIdempotent ==
    /\ [][(destroyed /\ last'.op = "destroy") =>
            /\ AllItems(tracks') = <<>>
            /\ stage' = {}
            /\ loopFrames' = 0 /\ emittingFrameId' = "null"
            /\ ~isStarted'
            /\ destroyed']_vars
    /\ [][(last.op = "destroy" /\ last'.op = "destroy") => EngineState' = EngineState]_vars

\* C28 witness: destroy() has just been called a second time.
C28_Witness ==
    /\ last.op = "destroy"
    /\ ~last.ran
    /\ destroyed

\* C30: two emission passes are at least 500 ms of refresh-loop time apart: a pass
\* never runs in an interval of EmitInterval ms in which a pass has already run.
C30_PassesHalfSecondApart ==
    [][(last'.op = "emitLoop" /\ last'.ran) => ~passedThisInterval]_vars

\* C29: cleanVideoTitle and traditionalToSimplifiedChinese return the empty string
\* for null, undefined and the empty string, and a string for every string;
\* cleanVideoTitle returns a non-empty string for a title that contains a
\* character other than white space.
C29_TitleUtilities ==
    titleCall # "none" =>
        /\ titleOut.kind = "string"
        /\ (title.kind \in {"null", "undefined"} \/ title = Str(<<>>))
              => titleOut.text = <<>>
        /\ (/\ titleCall = "cleanVideoTitle"
            /\ title.kind = "string"
            /\ \E i \in 1..Len(title.text) : title.text[i] # " ")
              => titleOut.text # <<>>

\* C29 witness: cleanVideoTitle has been given a title made of one bracketed block
\* and a tag, of which the cleaning leaves nothing, and has returned the title.
C29_Witness ==
    /\ titleCall = "cleanVideoTitle"
    /\ title = Str(<< "[", "]", "#", "a" >>)
    /\ titleOut = title

\* The engine is started and the video plays.
Playing == isStarted /\ ~vPaused

\* The animation of the item has finished, or its progress has reached 1.
AtItsEnd(it) == it.playState = "finished" \/ it.cur >= it.dur

\* No further cleanup can come due: the behaviour's time is used up.
TimeIsUp == ticks >= MaxTicks \/ vTime + vRate * EmitInterval > VideoEnd

\* C31: while the engine is started and the video plays, an item whose animation
\* has finished or whose progress has reached 1 is taken off its track and its
\* element detached by a later pass of the loop, unless playback is interrupted
\* first; and a pass of the loop removes no item whose animation has not finished
\* and whose progress is below 1.
C31_FinishedItemsAreRemoved ==
    /\ (Playing /\ (\E it \in ItemSet : AtItsEnd(it)) /\ (cleanupDue \/ ~TimeIsUp))
          ~> (last.removed # <<>> \/ ~Playing)
    /\ [][last'.op = "emitLoop" => \A it \in ItemSet : ~AtItsEnd(it) => it \in ItemSet']_vars

\* C31 witness: time has passed, and a pass of the loop has just detached the
\* element of an item whose animation ran to its end.
C31_Witness ==
    /\ last.op = "emitLoop"
    /\ ticks > 0
    /\ \E k \in 1..Len(last.removed) :
          /\ last.removed[k].playState = "finished"
          /\ last.removed[k].danmaku \notin {it.danmaku : it \in ItemSet}
          /\ last.removed[k].danmaku \notin stage

\* C32: the comment list the content script's current engine holds was loaded
\* while the page showed the video the list belongs to: comments fetched for one
\* video are never loaded into the engine once the page has moved to another.
C32_ListBelongsToShownVideo == engineList.of = engineList.shown

\* C33: no request that the content script or the popup sends to the background is
\* answered with the unknown-message-type error: a case of the listener's switch
\* handles its type.
C33_EveryRequestHandled == \A r \in responses : r.response # UnknownType

\* C34: at most one callback of the emission loop is pending at any time, and a
\* pending callback is the one emittingFrameId names.
C34_OneLoopPending ==
    /\ loopFrames <= 1
    /\ loopFrames = 1 => emittingFrameId = "pending"

\* C34 witness: updateSettings has called start() on a started engine right after a
\* pass of the loop, whose next callback was pending, and one callback is pending.
C34_Witness ==
    /\ last.op = "updateSettings"
    /\ isStarted
    /\ passedThisInterval
    /\ emitDue
    /\ loopFrames = 1
    /\ emittingFrameId = "pending"

\* C35: when onAdEnd has run, the opacity of the engine's settings is the opacity of
\* the stored danmakuSettings (100 when none is stored).
C35_AdEndRestoresConfiguredOpacity ==
    [][(lastAdStatus /\ ~lastAdStatus')
         => engineOpacity' = ConfiguredOpacity(storedOpacity')]_vars

\* The sponsor segments of the response were cut out of the comments.
Processed ==
    /\ segResult.kind = "resolved"
    /\ skipResponse.kind = "ok"
    /\ SponsorSegments(skipResponse.skipSegments) # <<>>
    /\ ~DurationsClose(skipResponse.videoDuration, youtubeVideoDuration)

\* The time t lies in a sponsor segment [start, end).
InSponsor(t) ==
    \E k \in 1..Len(skipResponse.skipSegments) :
       LET g == skipResponse.skipSegments[k]
       IN  g.category = "sponsor" /\ g.segment[1] <= t /\ t < g.segment[2]

\* The sponsor time before t, in seconds.
SponsorTimeBefore(t) == Cardinality({u \in SegmentTimes : u < t /\ InSponsor(u)})

\* The comments outside every sponsor segment, in order, each moved earlier by the
\* sponsor time before it.
ExpectedComments ==
    LET kept == SelectSeq(segDanmakus, LAMBDA d : ~InSponsor(d.time))
    IN  [k \in 1..Len(kept) |-> [kept[k] EXCEPT !.time = @ - SponsorTimeBefore(@)]]

\* C36: removeAdSegments returns exactly the comments whose time lies in no sponsor
\* segment, in their order, each moved earlier by the sponsor time before it, also
\* when sponsor segments overlap or touch.
C36_SponsorTimeCutOut == Processed => segResult.danmakus = ExpectedComments

\* The response holds no segment of category 'sponsor'.
NoSponsor ==
    \A k \in 1..Len(skipResponse.skipSegments) :
       skipResponse.skipSegments[k].category # "sponsor"

\* Both durations are known (given and not 0) and differ by at most 5 seconds.
KnownDurationsWithin5 ==
    /\ skipResponse.videoDuration \notin {<<>>, <<0>>}
    /\ youtubeVideoDuration \notin {<<>>, <<0>>}
    /\ skipResponse.videoDuration[1] - youtubeVideoDuration[1] \in -5..5

ReturnedTrue(i) == assocCalls[i].at = "returned" /\ assocCalls[i].result

\* the stored object holds what call i asked for
Reflects(i) ==
    channelMappings[assocCalls[i].channelId] =
        IF assocCalls[i].op = "save" THEN assocCalls[i].bilibiliUID ELSE Unmapped

\* no call other than i is for the channel of call i
OnlyCallForItsChannel(i) ==
    \A k \in 1..Len(assocCalls) :
        k # i => assocCalls[k].channelId # assocCalls[i].channelId

\* C38: when two calls of saveChannelAssociation or removeChannelAssociation for
\* different channel IDs have both returned true, and no other call was made for
\* either channel, the object stored under channelMappings holds both updates.
C38_BothUpdatesStored ==
    \A i, j \in 1..Len(assocCalls) :
        (/\ i # j
         /\ ReturnedTrue(i) /\ ReturnedTrue(j)
         /\ OnlyCallForItsChannel(i) /\ OnlyCallForItsChannel(j))
        => Reflects(i) /\ Reflects(j)

\* ---------------------------------------------------------------- C39
\* the cached key whose last use is the oldest
LeastRecentlyUsed ==
    CHOOSE k \in CachedKeys : \A other \in CachedKeys : usedAt[k] <= usedAt[other]

\* the step is a set() of a key that is not cached, made when the cache is full
OverflowingSet ==
    /\ cacheOps' = cacheOps + 1
    /\ cacheLast'.op = "set"
    /\ cacheLast'.key \notin CachedKeys
    /\ Cardinality(CachedKeys) = MaxSize

\* C39: the cache never holds more than maxSize entries, and a set() of a new key
\* that overflows the cache evicts exactly the least recently used key (set() and
\* a successful get() count as uses) and keeps the key just set.
C39_BoundedAndLeastRecentlyUsedEvicted ==
    /\ [](Cardinality(CachedKeys) <= MaxSize)
    /\ [][OverflowingSet =>
             CachedKeys' = (CachedKeys \ {LeastRecentlyUsed}) \cup {cacheLast'.key}]_vars

\* ---------------------------------------------------------------- C40
\* a name and a channel ID are on the page: a name element with text, and an href
\* with an ID on such an element or on an anchor
NameOnPage == \E i \in 1..Len(nameElements) : nameElements[i].text # ""

IdOnPage ==
    \/ \E i \in 1..Len(nameElements) :
           nameElements[i].text # "" /\ nameElements[i].href \in {"handle", "channel"}
    \/ \E i \in 1..Len(anchors) : anchors[i] \in {"handle", "channel"}

Resolved == channelCall.at = "resolved"

\* C40: getChannelInfo never rejects and, once called, resolves; it makes at most
\* 3 attempts, the retries 500 ms and 1000 ms after the attempt before them, and
\* the success flag of its result is true exactly when the last attempt found both
\* the channel's name and its ID.
C40_ResolvesWithinThreeAttempts ==
    /\ [](channelCall.at \in {"not called", "timer", "resolved"})
    /\ [](channelCall.attempts <= 3)
    /\ [](channelCall.delays \in {<<>>, <<500>>, <<500, 1000>>})
    /\ [](Resolved =>
              channelCall.result.success = (~channelCall.thrown /\ NameOnPage /\ IdOnPage))
    /\ (channelCall.at = "timer") ~> Resolved

\* The call has resolved at its third attempt, after both timers, with the name
\* and the ID found.
C40_Witness ==
    /\ Resolved
    /\ channelCall.attempts = 3
    /\ channelCall.delays = <<500, 1000>>
    /\ channelCall.result.success

====
